---- MODULE Spec2Model ----
(***************************************************************************)
(* Model of CalculatorEngine (src/src/calculadora/engine.py): the input    *)
(* state machine of a desktop calculator, its exact-decimal arithmetic     *)
(* (decimal.Decimal at 28 significant digits) and its display formatter.   *)
(*                                                                         *)
(* Texts (display_text, display_secondary) are sequences of one-character  *)
(* strings.  Characters outside ASCII are written by code point:           *)
(* "U+00D7" is the multiplication sign, "U+00F7" the division sign and     *)
(* "U+2212" the minus sign used in the secondary display.                  *)
(*                                                                         *)
(* A Decimal is a record [sign, coef, exp] whose value is                  *)
(* (-1)^sign * coef * 10^exp; coef is a sequence of digits, most           *)
(* significant first.  Python compares Decimals by value, and every use    *)
(* the engine makes of a stored Decimal (arithmetic, comparison with 0,    *)
(* fixed-point formatting followed by stripping of trailing zeros)         *)
(* depends on its value only, so the Decimals kept in the state are held   *)
(* in normal form (no trailing zeros in coef, one zero).  The formatter    *)
(* works on raw records, because quantize() fixes the exponent and keeps   *)
(* the sign of a value rounded to zero.                                    *)
(***************************************************************************)
EXTENDS Integers, Sequences, FiniteSets, TLC

MAX_DISPLAY_LEN == 32

PREC == 28

None == [none |-> TRUE]

NoOp == "None"

(***************************************************************************)
(* Natural numbers of arbitrary size, as digit sequences (most significant *)
(* digit first).  The digit-by-digit passes are written as folds that      *)
(* split their range in two and evaluate the first half before the second *)
(* starts, which keeps the depth of evaluation logarithmic in the number   *)
(* of digits.                                                              *)
(***************************************************************************)
Zeros(k) == [i \in 1..k |-> 0]

\* e, after v has been evaluated
Strict(v, e) == IF v = v THEN e ELSE e

MinOf(S) == CHOOSE i \in S : \A j \in S : i <= j

IsZeroNat(n) == \A i \in 1..Len(n) : n[i] = 0

\* without leading zeros; <<0>> is zero
StripLeft(n) ==
    LET nz == {i \in 1..Len(n) : n[i] # 0}
    IN  IF nz = {} THEN <<0>> ELSE SubSeq(n, MinOf(nz), Len(n))

\* without trailing zeros
StripRight(n) ==
    LET nz == {Len(n) - i : i \in {k \in 1..Len(n) : n[k] # 0}}
    IN  IF nz = {} THEN <<>> ELSE SubSeq(n, 1, Len(n) - MinOf(nz))

\* a, b without leading zeros
CmpNat(a, b) ==
    IF Len(a) < Len(b) THEN -1
    ELSE IF Len(a) > Len(b) THEN 1
    ELSE LET diff == {i \in 1..Len(a) : a[i] # b[i]}
         IN  IF diff = {} THEN 0
             ELSE IF a[MinOf(diff)] < b[MinOf(diff)] THEN -1 ELSE 1

AddStep(st, x, y) ==
    LET t == x + y + st.c
    IN  IF t >= 10 THEN [c |-> 1, out |-> <<t - 10>> \o st.out]
                   ELSE [c |-> 0, out |-> <<t>> \o st.out]

\* adds digits hi, hi-1, .., lo of a and b to the state st
RECURSIVE AddRange(_, _, _, _, _)
AddRange(a, b, st, lo, hi) ==
    IF lo = hi THEN AddStep(st, a[lo], b[lo])
    ELSE LET mid  == (lo + hi) \div 2
             half == AddRange(a, b, st, mid + 1, hi)
         IN  Strict(half, AddRange(a, b, half, lo, mid))

AddNat(a, b) ==
    LET n  == IF Len(a) > Len(b) THEN Len(a) ELSE Len(b)
        pa == Zeros(n - Len(a)) \o a
        pb == Zeros(n - Len(b)) \o b
        r  == AddRange(pa, pb, [c |-> 0, out |-> <<>>], 1, n)
    IN  StripLeft(<<r.c>> \o r.out)

SubStep(st, x, y) ==
    LET t == x - y - st.c
    IN  IF t < 0 THEN [c |-> 1, out |-> <<t + 10>> \o st.out]
                 ELSE [c |-> 0, out |-> <<t>> \o st.out]

RECURSIVE SubRange(_, _, _, _, _)
SubRange(a, b, st, lo, hi) ==
    IF lo = hi THEN SubStep(st, a[lo], b[lo])
    ELSE LET mid  == (lo + hi) \div 2
             half == SubRange(a, b, st, mid + 1, hi)
         IN  Strict(half, SubRange(a, b, half, lo, mid))

\* a - b, for a >= b
SubNat(a, b) ==
    LET pb == Zeros(Len(a) - Len(b)) \o b
    IN  StripLeft(SubRange(a, pb, [c |-> 0, out |-> <<>>], 1, Len(a)).out)

MulDigitStep(st, x, d) ==
    LET t == x * d + st.c
    IN  [c |-> t \div 10, out |-> <<t % 10>> \o st.out]

RECURSIVE MulDigitRange(_, _, _, _, _)
MulDigitRange(a, d, st, lo, hi) ==
    IF lo = hi THEN MulDigitStep(st, a[lo], d)
    ELSE LET mid  == (lo + hi) \div 2
             half == MulDigitRange(a, d, st, mid + 1, hi)
         IN  Strict(half, MulDigitRange(a, d, half, lo, mid))

\* a * d for a digit d
MulDigit(a, d) ==
    LET r == MulDigitRange(a, d, [c |-> 0, out |-> <<>>], 1, Len(a))
    IN  StripLeft(<<r.c>> \o r.out)

\* 10 * acc + a * d
MulStep(acc, a, d) ==
    IF acc = <<0>> THEN MulDigit(a, d) ELSE AddNat(acc \o <<0>>, MulDigit(a, d))

\* folds the digits lo..hi of b, left to right, into acc
RECURSIVE MulRange(_, _, _, _, _)
MulRange(a, b, acc, lo, hi) ==
    IF lo = hi THEN MulStep(acc, a, b[lo])
    ELSE LET mid  == (lo + hi) \div 2
             half == MulRange(a, b, acc, lo, mid)
         IN  Strict(half, MulRange(a, b, half, mid + 1, hi))

MulNat(a, b) == MulRange(a, b, <<0>>, 1, Len(b))

\* how many times b can be taken from r, and what is left
RECURSIVE SubCount(_, _, _)
SubCount(r, b, k) ==
    IF CmpNat(r, b) < 0 THEN [q |-> k, r |-> r]
    ELSE SubCount(SubNat(r, b), b, k + 1)

\* one step of long division: brings down digit d after quotient p.q and
\* remainder p.r
DivStep(p, d, b) ==
    IF p.r = <<0>> /\ d = 0 THEN [q |-> p.q \o <<0>>, r |-> <<0>>]
    ELSE LET s == SubCount(StripLeft(p.r \o <<d>>), b, 0)
         IN  [q |-> p.q \o <<s.q>>, r |-> s.r]

RECURSIVE DivRange(_, _, _, _, _)
DivRange(a, b, p, lo, hi) ==
    IF lo = hi THEN DivStep(p, a[lo], b)
    ELSE LET mid  == (lo + hi) \div 2
             half == DivRange(a, b, p, lo, mid)
         IN  Strict(half, DivRange(a, b, half, mid + 1, hi))

\* divmod(a, b), b > 0
DivModNat(a, b) ==
    LET d == DivRange(a, b, [q |-> <<>>, r |-> <<0>>], 1, Len(a))
    IN  [q |-> StripLeft(d.q), r |-> d.r]

(***************************************************************************)
(* decimal.Decimal under the context set by the constructor: 28            *)
(* significant digits, ROUND_HALF_EVEN.                                    *)
(***************************************************************************)
Dec(sign, coef, exp) == [sign |-> sign, coef |-> coef, exp |-> exp]

DecZero == Dec(0, <<0>>, 0)

IsZero(d) == IsZeroNat(d.coef)

\* value < 0 (false for a negative zero)
IsNeg(d) == d.sign = 1 /\ ~IsZero(d)

Normal(d) ==
    IF IsZero(d) THEN DecZero
    ELSE LET c == StripLeft(d.coef)
             n == StripRight(c)
         IN  Dec(d.sign, n, d.exp + Len(c) - Len(n))

\* rounding to half of the context precision
RoundHalfEven_half_precision(sign, coef, exp, sticky) ==
    LET p == PREC \div 2
    IN  IF Len(coef) <= p THEN Dec(sign, coef, exp)
        ELSE LET keep == SubSeq(coef, 1, p)
                 rest == SubSeq(coef, p + 1, Len(coef))
                 half == rest[1] = 5 /\ IsZeroNat(Tail(rest)) /\ ~sticky
                 up   == IF half THEN keep[p] % 2 = 1 ELSE rest[1] >= 5
             IN  Dec(sign, IF up THEN AddNat(keep, <<1>>) ELSE keep, exp + Len(rest))

\* rounding of an exact result to the context precision; sticky tells that
\* nonzero digits beyond coef were already dropped
RoundHalfEven(sign, coef, exp, sticky) ==
    IF Len(coef) <= PREC THEN Dec(sign, coef, exp)
    ELSE LET keep == SubSeq(coef, 1, PREC)
             rest == SubSeq(coef, PREC + 1, Len(coef))
             half == rest[1] = 5 /\ IsZeroNat(Tail(rest)) /\ ~sticky
             up   == IF half THEN keep[PREC] % 2 = 1 ELSE rest[1] >= 5
         IN  Dec(sign, IF up THEN AddNat(keep, <<1>>) ELSE keep, exp + Len(rest))

DecNeg(d) == Dec(1 - d.sign, d.coef, d.exp)

DecAbs(d) == Normal(RoundHalfEven(0, StripLeft(d.coef), d.exp, FALSE))

DecAdd(a, b) ==
    LET e  == IF a.exp < b.exp THEN a.exp ELSE b.exp
        ca == StripLeft(a.coef \o Zeros(a.exp - e))
        cb == StripLeft(b.coef \o Zeros(b.exp - e))
        c  == CmpNat(ca, cb)
    IN  IF a.sign = b.sign
        THEN Normal(RoundHalfEven(a.sign, AddNat(ca, cb), e, FALSE))
        ELSE IF c = 0 THEN DecZero
        ELSE IF c > 0 THEN Normal(RoundHalfEven(a.sign, SubNat(ca, cb), e, FALSE))
        ELSE Normal(RoundHalfEven(b.sign, SubNat(cb, ca), e, FALSE))

DecSub(a, b) == DecAdd(a, DecNeg(b))

DecMul(a, b) ==
    Normal(RoundHalfEven((a.sign + b.sign) % 2, MulNat(a.coef, b.coef),
                         a.exp + b.exp, FALSE))

\* b # 0
DecDiv(a, b) ==
    IF IsZero(a) THEN DecZero
    ELSE LET shift == Len(b.coef) - Len(a.coef) + PREC + 1
             num   == IF shift >= 0 THEN a.coef \o Zeros(shift) ELSE a.coef
             den   == IF shift >= 0 THEN b.coef ELSE b.coef \o Zeros(-shift)
             qr    == DivModNat(num, den)
         IN  Normal(RoundHalfEven((a.sign + b.sign) % 2, qr.q,
                                  a.exp - b.exp - shift, ~IsZeroNat(qr.r)))

(***************************************************************************)
(* Texts.                                                                  *)
(***************************************************************************)
DigitChars == <<"0", "1", "2", "3", "4", "5", "6", "7", "8", "9">>

DigitSet == {DigitChars[i] : i \in 1..10}

DigitChar(n) == DigitChars[n + 1]

DigitVal(c) == CHOOSE n \in 0..9 : DigitChars[n + 1] = c

ZeroText == <<"0">>

ErroText == <<"E", "r", "r", "o">>

OverflowText == <<"O", "v", "e", "r", "f", "l", "o", "w">>

Contains(t, c) == \E i \in 1..Len(t) : t[i] = c

IndexOf(t, c) == CHOOSE i \in 1..Len(t) : t[i] = c /\ \A j \in 1..(i - 1) : t[j] # c

DigitsToText(n) == [i \in 1..Len(n) |-> DigitChar(n[i])]

TextToDigits(t) == [i \in 1..Len(t) |-> DigitVal(t[i])]

\* str.rstrip(c)
RStrip(t, c) ==
    LET keep == {Len(t) - i : i \in {k \in 1..Len(t) : t[k] # c}}
    IN  IF keep = {} THEN <<>> ELSE SubSeq(t, 1, Len(t) - MinOf(keep))

\* the texts Decimal(t) accepts among those made of digits, '-' and '.'
IsNumberText(t) ==
    LET u == IF t # <<>> /\ t[1] = "-" THEN Tail(t) ELSE t
    IN  /\ \A i \in 1..Len(u) : u[i] \in DigitSet \cup {"."}
        /\ Cardinality({i \in 1..Len(u) : u[i] = "."}) <= 1
        /\ \E i \in 1..Len(u) : u[i] \in DigitSet

\* Decimal(t) for a number text t
ParseDecimal(t) ==
    LET neg  == t[1] = "-"
        u    == IF neg THEN Tail(t) ELSE t
        p    == IF Contains(u, ".") THEN IndexOf(u, ".") ELSE Len(u) + 1
        int  == SubSeq(u, 1, p - 1)
        frac == SubSeq(u, p + 1, Len(u))
    IN  Normal(Dec(IF neg THEN 1 ELSE 0,
                   StripLeft(TextToDigits(int \o frac)), -Len(frac)))

InvalidOperation == [invalid |-> TRUE]

_to_decimal(text) ==
    IF text \in {<<>>, <<"-">>, <<".">>, <<"-", ".">>} THEN DecZero
    ELSE LET t == IF text[Len(text)] = "." THEN SubSeq(text, 1, Len(text) - 1)
                  ELSE text
         IN  IF t \in {<<>>, <<"-">>} THEN DecZero
             ELSE IF IsNumberText(t) THEN ParseDecimal(t)
             ELSE InvalidOperation

_op_for_display(op) ==
    CASE op = "+" -> "+"
      [] op = "-" -> "U+2212"
      [] op = "*" -> "U+00D7"
      [] op = "/" -> "U+00F7"
      [] OTHER    -> op

\* format(value, "f")
FormatF(d) ==
    LET n    == Len(d.coef)
        k    == -d.exp
        sgn  == IF d.sign = 1 THEN <<"-">> ELSE <<>>
        body == IF d.exp >= 0 THEN DigitsToText(d.coef \o Zeros(d.exp))
                ELSE IF n > k
                THEN DigitsToText(SubSeq(d.coef, 1, n - k)) \o <<".">>
                     \o DigitsToText(SubSeq(d.coef, n - k + 1, n))
                ELSE <<"0", ".">> \o DigitsToText(Zeros(k - n) \o d.coef)
    IN  sgn \o body


StripFraction(s) ==
    IF Contains(s, ".") THEN RStrip(RStrip(s, "0"), ".") ELSE s

\* a quantize that drops the digits that do not fit
Quantize_truncates(d, frac) ==
    IF IsZero(d) THEN Dec(d.sign, <<0>>, -frac)
    ELSE IF d.exp + Len(d.coef) + frac > PREC THEN InvalidOperation
    ELSE IF d.exp >= -frac THEN Dec(d.sign, d.coef \o Zeros(d.exp + frac), -frac)
    ELSE LET k    == -frac - d.exp
             pad  == IF k + 1 > Len(d.coef) THEN Zeros(k + 1 - Len(d.coef)) \o d.coef
                     ELSE d.coef
         IN  Dec(d.sign, StripLeft(SubSeq(pad, 1, Len(pad) - k)), -frac)

\* value.quantize(Decimal("1").scaleb(-frac), rounding=ROUND_HALF_UP)
Quantize(d, frac) ==
    IF IsZero(d) THEN Dec(d.sign, <<0>>, -frac)
    ELSE IF d.exp + Len(d.coef) + frac > PREC THEN InvalidOperation
    ELSE IF d.exp >= -frac THEN Dec(d.sign, d.coef \o Zeros(d.exp + frac), -frac)
    ELSE LET k    == -frac - d.exp
             pad  == IF k + 1 > Len(d.coef) THEN Zeros(k + 1 - Len(d.coef)) \o d.coef
                     ELSE d.coef
             keep == SubSeq(pad, 1, Len(pad) - k)
             up   == pad[Len(pad) - k + 1] >= 5
             c    == IF up THEN AddNat(StripLeft(keep), <<1>>) ELSE StripLeft(keep)
         IN  IF Len(c) > PREC THEN InvalidOperation ELSE Dec(d.sign, c, -frac)

Formatted(text) == [overflow |-> FALSE, text |-> text]

FormatOverflow == [overflow |-> TRUE, text |-> OverflowText]

\* the body of `for _ in range(6)`, n iterations left
RECURSIVE FormatRound(_, _)
FormatRound(value, n) ==
    IF n = 0 THEN FormatOverflow
    ELSE LET sign      == IF IsNeg(value) THEN <<"-">> ELSE <<>>
             abs_fixed == FormatF(DecAbs(value))
             int_part  == IF Contains(abs_fixed, ".")
                          THEN SubSeq(abs_fixed, 1, IndexOf(abs_fixed, ".") - 1)
                          ELSE abs_fixed
             allowed_frac == MAX_DISPLAY_LEN - Len(sign) - Len(int_part) - 1
             q  == Quantize(value, allowed_frac)
             s  == StripFraction(FormatF(q))
         IN  IF Len(sign) + Len(int_part) > MAX_DISPLAY_LEN THEN FormatOverflow
             ELSE IF allowed_frac <= 0 THEN Formatted(sign \o int_part)
             ELSE IF q = InvalidOperation THEN FormatOverflow
             ELSE IF Len(s) <= MAX_DISPLAY_LEN THEN Formatted(s)
             ELSE FormatRound(q, n - 1)

\* the text returned, and whether _set_error("Overflow") was called
_format_decimal(value) ==
    IF IsZero(value) THEN Formatted(ZeroText)
    ELSE LET s == StripFraction(FormatF(value))
         IN  IF Len(s) <= MAX_DISPLAY_LEN THEN Formatted(s)
             ELSE IF Contains(s, ".") THEN FormatRound(value, 6)
             ELSE FormatOverflow

Raised(exc) == [raised |-> exc]

_apply_op(a, op, b) ==
    IF op = "+" THEN DecAdd(a, b)
    ELSE IF op = "-" THEN DecSub(a, b)
    ELSE IF op \in {"*", "U+00D7"} THEN DecMul(a, b)
    ELSE IF op \in {"/", "U+00F7"}
    THEN (IF IsZero(b) THEN Raised("ZeroDivisionError") ELSE DecDiv(a, b))
    ELSE Raised("ValueError")

(***************************************************************************)
(* The engine.  Its handlers are functions from the state before the call  *)
(* to the state after it; field raised names the exception that escaped    *)
(* from the call, "None" when it returned normally.                        *)
(***************************************************************************)
VARIABLES display_text, display_secondary, stored_value, pending_op,
          reset_next_digit, error_state, last_op, last_rhs, raised,
          caller, pressed

engine == <<display_text, display_secondary, stored_value, pending_op,
            reset_next_digit, error_state, last_op, last_rhs, raised>>

vars == <<display_text, display_secondary, stored_value, pending_op,
          reset_next_digit, error_state, last_op, last_rhs, raised,
          caller, pressed>>

State ==
    [display_text |-> display_text, display_secondary |-> display_secondary,
     stored_value |-> stored_value, pending_op |-> pending_op,
     reset_next_digit |-> reset_next_digit, error_state |-> error_state,
     last_op |-> last_op, last_rhs |-> last_rhs, raised |-> raised]

\* __init__ and reset()
reset ==
    [display_text |-> ZeroText, display_secondary |-> <<>>,
     stored_value |-> None, pending_op |-> NoOp,
     reset_next_digit |-> FALSE, error_state |-> FALSE,
     last_op |-> NoOp, last_rhs |-> None, raised |-> "None"]

Called(s) == [s EXCEPT !.raised = "None"]

Raise(s, exc) == [s EXCEPT !.raised = exc]

get_display(s) == s.display_text

get_secondary(s) == s.display_secondary

\* _set_error without the assignment to error_state
_set_error_without_flag(s, msg) ==
    [s EXCEPT !.display_text = msg, !.display_secondary = <<>>,
              !.stored_value = None, !.pending_op = NoOp,
              !.reset_next_digit = TRUE,
              !.last_op = NoOp, !.last_rhs = None]

\* _set_error without the assignment to pending_op
_set_error_keeps_pending(s, msg) ==
    [s EXCEPT !.display_text = msg, !.display_secondary = <<>>,
              !.stored_value = None,
              !.reset_next_digit = TRUE, !.error_state = TRUE,
              !.last_op = NoOp, !.last_rhs = None]

\* _set_error without the assignment to display_secondary
_set_error_keeps_secondary(s, msg) ==
    [s EXCEPT !.display_text = msg,
              !.stored_value = None, !.pending_op = NoOp,
              !.reset_next_digit = TRUE, !.error_state = TRUE,
              !.last_op = NoOp, !.last_rhs = None]


_set_error(s, msg) ==
    [s EXCEPT !.display_text = msg, !.display_secondary = <<>>,
              !.stored_value = None, !.pending_op = NoOp,
              !.reset_next_digit = TRUE, !.error_state = TRUE,
              !.last_op = NoOp, !.last_rhs = None]

\* _clear_error_full with a reset that leaves error_state as it is
_clear_error_full_keeps_flag(s) ==
    [reset EXCEPT !.raised = s.raised, !.error_state = s.error_state]


_clear_error_full(s) == [reset EXCEPT !.raised = s.raised]

_clear_repeat_memory_if_free(s) ==
    IF s.pending_op = NoOp /\ s.stored_value = None
    THEN [s EXCEPT !.last_op = NoOp, !.last_rhs = None]
    ELSE s

\* _start_new_entry_if_needed without the call that disarms repeat-equals
_start_new_entry_keeps_memory(s) ==
    IF s.reset_next_digit
    THEN [s EXCEPT !.display_text = ZeroText, !.reset_next_digit = FALSE]
    ELSE s

\* _start_new_entry_if_needed without the assignment to display_text
_start_new_entry_keeps_display(s) ==
    IF s.reset_next_digit
    THEN _clear_repeat_memory_if_free([s EXCEPT !.reset_next_digit = FALSE])
    ELSE s


_start_new_entry_if_needed(s) ==
    IF s.reset_next_digit
    THEN _clear_repeat_memory_if_free(
             [s EXCEPT !.display_text = ZeroText, !.reset_next_digit = FALSE])
    ELSE s

\* a caller of _format_decimal that ignores the call of _set_error in it
AfterFormat_ignores(s, f) == s

\* the state after a call of _format_decimal in state s returned f
AfterFormat(s, f) ==
    IF f.overflow THEN _set_error(s, OverflowText) ELSE s

\* press_digit that appends to the text 0 as to any other text
press_digit_appends(s0, d) ==
    LET s  == Called(s0)
        s1 == IF s.error_state THEN _clear_error_full(s) ELSE s
        s2 == _start_new_entry_if_needed(s1)
    IN  IF ~(Len(d) = 1 /\ d[1] \in DigitSet) THEN s
        ELSE IF s2.display_text # ZeroText /\ Len(s2.display_text) >= MAX_DISPLAY_LEN
        THEN s2
        ELSE [s2 EXCEPT !.display_text = @ \o d]


press_digit(s0, d) ==
    LET s  == Called(s0)
        s1 == IF s.error_state THEN _clear_error_full(s) ELSE s
        s2 == _start_new_entry_if_needed(s1)
    IN  IF ~(Len(d) = 1 /\ d[1] \in DigitSet) THEN s
        ELSE IF s2.display_text # ZeroText /\ Len(s2.display_text) >= MAX_DISPLAY_LEN
        THEN s2
        ELSE IF s2.display_text = ZeroText THEN [s2 EXCEPT !.display_text = d]
        ELSE IF s2.display_text = <<"-", "0">>
        THEN [s2 EXCEPT !.display_text = <<"-">> \o d]
        ELSE [s2 EXCEPT !.display_text = @ \o d]

\* press_decimal without the check of a decimal point already there
press_decimal_repeats(s0) ==
    LET s  == Called(s0)
        s1 == IF s.error_state THEN _clear_error_full(s) ELSE s
        s2 == _start_new_entry_if_needed(s1)
    IN  IF Len(s2.display_text) >= MAX_DISPLAY_LEN THEN s2
        ELSE [s2 EXCEPT !.display_text = @ \o <<".">>]

\* press_decimal without the check of the length
press_decimal_unchecked(s0) ==
    LET s  == Called(s0)
        s1 == IF s.error_state THEN _clear_error_full(s) ELSE s
        s2 == _start_new_entry_if_needed(s1)
    IN  IF Contains(s2.display_text, ".") THEN s2
        ELSE [s2 EXCEPT !.display_text = @ \o <<".">>]


press_decimal(s0) ==
    LET s  == Called(s0)
        s1 == IF s.error_state THEN _clear_error_full(s) ELSE s
        s2 == _start_new_entry_if_needed(s1)
    IN  IF Contains(s2.display_text, ".") THEN s2
        ELSE IF Len(s2.display_text) >= MAX_DISPLAY_LEN THEN s2
        ELSE [s2 EXCEPT !.display_text = @ \o <<".">>]

\* press_backspace without the collapse of a bare minus sign
press_backspace_keeps_minus(s0) ==
    LET s  == Called(s0)
        s1 == _start_new_entry_if_needed(_clear_repeat_memory_if_free(s))
        t  == SubSeq(s1.display_text, 1, Len(s1.display_text) - 1)
        t1 == IF t = <<>> THEN ZeroText ELSE t
        t2 == IF t1 = <<"-", "0">> THEN ZeroText ELSE t1
    IN  IF s.error_state THEN s
        ELSE IF s1.display_text = ZeroText THEN s1
        ELSE [s1 EXCEPT !.display_text = t2]

\* press_backspace without the early return in the error state
press_backspace_unguarded(s0) ==
    LET s  == Called(s0)
        s1 == _start_new_entry_if_needed(_clear_repeat_memory_if_free(s))
        t  == SubSeq(s1.display_text, 1, Len(s1.display_text) - 1)
        t1 == IF t \in {<<>>, <<"-">>} THEN ZeroText ELSE t
        t2 == IF t1 = <<"-", "0">> THEN ZeroText ELSE t1
    IN  IF s1.display_text = ZeroText THEN s1
        ELSE [s1 EXCEPT !.display_text = t2]


press_backspace(s0) ==
    LET s  == Called(s0)
        s1 == _start_new_entry_if_needed(_clear_repeat_memory_if_free(s))
        t  == SubSeq(s1.display_text, 1, Len(s1.display_text) - 1)
        t1 == IF t \in {<<>>, <<"-">>} THEN ZeroText ELSE t
        t2 == IF t1 = <<"-", "0">> THEN ZeroText ELSE t1
    IN  IF s.error_state THEN s
        ELSE IF s1.display_text = ZeroText THEN s1
        ELSE [s1 EXCEPT !.display_text = t2]

\* press_toggle_sign that never removes a minus sign
press_toggle_sign_keeps_minus(s0) ==
    LET s  == Called(s0)
        s1 == IF s.error_state THEN _clear_error_full(s) ELSE s
        s2 == _start_new_entry_if_needed(_clear_repeat_memory_if_free(s1))
    IN  IF s2.display_text = ZeroText THEN s2
        ELSE IF s2.display_text[1] = "-" THEN s2
        ELSE IF Len(s2.display_text) + 1 > MAX_DISPLAY_LEN THEN s2
        ELSE [s2 EXCEPT !.display_text = <<"-">> \o @]

\* press_toggle_sign without the check of the length
press_toggle_sign_unchecked(s0) ==
    LET s  == Called(s0)
        s1 == IF s.error_state THEN _clear_error_full(s) ELSE s
        s2 == _start_new_entry_if_needed(_clear_repeat_memory_if_free(s1))
    IN  IF s2.display_text = ZeroText THEN s2
        ELSE IF s2.display_text[1] = "-"
        THEN [s2 EXCEPT !.display_text = Tail(@)]
        ELSE [s2 EXCEPT !.display_text = <<"-">> \o @]


press_toggle_sign(s0) ==
    LET s  == Called(s0)
        s1 == IF s.error_state THEN _clear_error_full(s) ELSE s
        s2 == _start_new_entry_if_needed(_clear_repeat_memory_if_free(s1))
    IN  IF s2.display_text = ZeroText THEN s2
        ELSE IF s2.display_text[1] = "-"
        THEN [s2 EXCEPT !.display_text = Tail(@)]
        ELSE IF Len(s2.display_text) + 1 > MAX_DISPLAY_LEN THEN s2
        ELSE [s2 EXCEPT !.display_text = <<"-">> \o @]

press_clear(s0) == reset

\* press_clear_entry without the branch of the error state
press_clear_entry_soft(s0) ==
    LET s == Called(s0)
    IN  [_clear_repeat_memory_if_free(s) EXCEPT
            !.display_text = ZeroText, !.reset_next_digit = FALSE]

\* press_clear_entry that resets the engine in every state
press_clear_entry_clears_all(s0) == _clear_error_full(Called(s0))


press_clear_entry(s0) ==
    LET s == Called(s0)
    IN  IF s.error_state THEN _clear_error_full(s)
        ELSE [_clear_repeat_memory_if_free(s) EXCEPT
                  !.display_text = ZeroText, !.reset_next_digit = FALSE]

\* str.strip() of an operator spelling
Strip(t) ==
    LET keep == {i \in 1..Len(t) : t[i] # " "}
    IN  IF keep = {} THEN <<>>
        ELSE SubSeq(t, MinOf(keep), Len(t) - MinOf({Len(t) - i : i \in keep}))

OperatorSpellings == {<<"+">>, <<"-">>, <<"*">>, <<"U+00D7">>, <<"/">>, <<"U+00F7">>}

\* no normalization: the spelling is the operator
Normalize_identity(t) == t[1]

\* the internal operator of an accepted spelling
Normalize(t) ==
    IF t = <<"U+00D7">> THEN "*" ELSE IF t = <<"U+00F7">> THEN "/" ELSE t[1]

\* lines 330-340 of press_operator: adopt the operand, make op pending
SetPending(s, op, current) ==
    LET s1 == IF s.stored_value = None THEN [s EXCEPT !.stored_value = current]
              ELSE s
        s2 == [s1 EXCEPT !.pending_op = op]
        f  == _format_decimal(s2.stored_value)
        s3 == [AfterFormat(s2, f) EXCEPT
                  !.display_secondary = f.text \o <<" ", _op_for_display(op)>>]
    IN  IF s3.error_state THEN s3 ELSE [s3 EXCEPT !.reset_next_digit = TRUE]

\* a chaining condition that does not ask for a new operand
Chained_without_operand(s) == s.pending_op # NoOp /\ s.stored_value # None

\* a chaining condition that never holds: the pending operation is replaced
Chained_never(s) == FALSE

\* the chaining condition of press_operator
Chained(s) ==
    s.pending_op # NoOp /\ s.stored_value # None /\ ~s.reset_next_digit

\* press_operator without the handler of ZeroDivisionError
press_operator_unguarded(s0, spelling) ==
    LET s       == Called(s0)
        t       == Strip(spelling)
        op      == Normalize(t)
        current == _to_decimal(s.display_text)
        result  == _apply_op(s.stored_value, s.pending_op, current)
        f       == _format_decimal(result)
        s1      == [AfterFormat([s EXCEPT !.stored_value = result], f)
                       EXCEPT !.display_text = f.text]
    IN  IF s.error_state THEN s
        ELSE IF t \notin OperatorSpellings THEN s
        ELSE IF current = InvalidOperation THEN Raise(s, "InvalidOperation")
        ELSE IF ~Chained(s) THEN SetPending(s, op, current)
        ELSE IF result = Raised("ZeroDivisionError")
        THEN Raise(s, "ZeroDivisionError")
        ELSE IF result = Raised("ValueError") THEN Raise(s, "ValueError")
        ELSE IF s1.error_state THEN s1
        ELSE SetPending(s1, op, current)


press_operator(s0, spelling) ==
    LET s       == Called(s0)
        t       == Strip(spelling)
        op      == Normalize(t)
        current == _to_decimal(s.display_text)
        result  == _apply_op(s.stored_value, s.pending_op, current)
        f       == _format_decimal(result)
        s1      == [AfterFormat([s EXCEPT !.stored_value = result], f)
                       EXCEPT !.display_text = f.text]
    IN  IF s.error_state THEN s
        ELSE IF t \notin OperatorSpellings THEN s
        ELSE IF current = InvalidOperation THEN Raise(s, "InvalidOperation")
        ELSE IF ~Chained(s) THEN SetPending(s, op, current)
        ELSE IF result = Raised("ZeroDivisionError") THEN _set_error(s, ErroText)
        ELSE IF result = Raised("ValueError") THEN Raise(s, "ValueError")
        ELSE IF s1.error_state THEN s1
        ELSE SetPending(s1, op, current)

\* case 1 of press_equals that leaves the left operand stored
Completed_keeps_stored(s, f, current) ==
    LET s1 == AfterFormat(s, f)
    IN  [s1 EXCEPT !.display_text = f.text,
                   !.display_secondary = <<>>,
                   !.last_op = s1.pending_op,
                   !.last_rhs = current,
                   !.pending_op = NoOp,
                   !.reset_next_digit = TRUE]

\* case 1 of press_equals without the assignment to display_secondary
Completed_keeps_secondary(s, f, current) ==
    LET s1 == AfterFormat(s, f)
    IN  [s1 EXCEPT !.display_text = f.text,
                   !.last_op = s1.pending_op,
                   !.last_rhs = current,
                   !.stored_value = None,
                   !.pending_op = NoOp,
                   !.reset_next_digit = TRUE]

\* case 1 of press_equals after the operation succeeded: f is the formatted
\* result, current the right operand
Completed(s, f, current) ==
    LET s1 == AfterFormat(s, f)
    IN  [s1 EXCEPT !.display_text = f.text,
                   !.display_secondary = <<>>,
                   !.last_op = s1.pending_op,
                   !.last_rhs = current,
                   !.stored_value = None,
                   !.pending_op = NoOp,
                   !.reset_next_digit = TRUE]

\* case 2 of press_equals, forgetting the repeated operation
Repeated_forgets(s, f) ==
    [AfterFormat(s, f) EXCEPT !.display_text = f.text,
                              !.display_secondary = <<>>,
                              !.reset_next_digit = TRUE,
                              !.last_op = NoOp,
                              !.last_rhs = None]

\* case 2 of press_equals after the operation succeeded
Repeated(s, f) ==
    [AfterFormat(s, f) EXCEPT !.display_text = f.text,
                              !.display_secondary = <<>>,
                              !.reset_next_digit = TRUE]

\* press_equals that remembers the operation before it computes it
press_equals_remembers_failure(s0) ==
    LET s       == Called(s0)
        typed   == _to_decimal(s.display_text)
        current == IF s.reset_next_digit THEN s.stored_value ELSE typed
        result  == _apply_op(s.stored_value, s.pending_op, current)
        again   == _apply_op(typed, s.last_op, s.last_rhs)
    IN  IF s.error_state THEN s
        ELSE IF s.pending_op # NoOp /\ s.stored_value # None
        THEN IF typed = InvalidOperation THEN Raise(s, "InvalidOperation")
             ELSE IF result = Raised("ZeroDivisionError")
             THEN [_set_error(s, ErroText) EXCEPT !.last_op = s.pending_op,
                                                 !.last_rhs = current]
             ELSE IF result = Raised("ValueError") THEN Raise(s, "ValueError")
             ELSE Completed(s, _format_decimal(result), current)
        ELSE IF s.last_op # NoOp /\ s.last_rhs # None
        THEN IF typed = InvalidOperation THEN Raise(s, "InvalidOperation")
             ELSE IF again = Raised("ZeroDivisionError") THEN _set_error(s, ErroText)
             ELSE IF again = Raised("ValueError") THEN Raise(s, "ValueError")
             ELSE Repeated(s, _format_decimal(again))
        ELSE s

\* press_equals that ends every call with reset_next_digit true
press_equals_always_resets(s0) ==
    LET s       == Called(s0)
        typed   == _to_decimal(s.display_text)
        current == IF s.reset_next_digit THEN s.stored_value ELSE typed
        result  == _apply_op(s.stored_value, s.pending_op, current)
        again   == _apply_op(typed, s.last_op, s.last_rhs)
    IN  IF s.error_state THEN s
        ELSE IF s.pending_op # NoOp /\ s.stored_value # None
        THEN IF typed = InvalidOperation THEN Raise(s, "InvalidOperation")
             ELSE IF result = Raised("ZeroDivisionError") THEN _set_error(s, ErroText)
             ELSE IF result = Raised("ValueError") THEN Raise(s, "ValueError")
             ELSE Completed(s, _format_decimal(result), current)
        ELSE IF s.last_op # NoOp /\ s.last_rhs # None
        THEN IF typed = InvalidOperation THEN Raise(s, "InvalidOperation")
             ELSE IF again = Raised("ZeroDivisionError") THEN _set_error(s, ErroText)
             ELSE IF again = Raised("ValueError") THEN Raise(s, "ValueError")
             ELSE Repeated(s, _format_decimal(again))
        ELSE [s EXCEPT !.reset_next_digit = TRUE]

\* press_equals that does nothing right after an operator
press_equals_needs_operand(s0) ==
    LET s       == Called(s0)
        typed   == _to_decimal(s.display_text)
        result  == _apply_op(s.stored_value, s.pending_op, typed)
        again   == _apply_op(typed, s.last_op, s.last_rhs)
    IN  IF s.error_state THEN s
        ELSE IF s.pending_op # NoOp /\ s.stored_value # None
        THEN IF s.reset_next_digit THEN s
             ELSE IF typed = InvalidOperation THEN Raise(s, "InvalidOperation")
             ELSE IF result = Raised("ZeroDivisionError") THEN _set_error(s, ErroText)
             ELSE IF result = Raised("ValueError") THEN Raise(s, "ValueError")
             ELSE Completed(s, _format_decimal(result), typed)
        ELSE IF s.last_op # NoOp /\ s.last_rhs # None
        THEN IF typed = InvalidOperation THEN Raise(s, "InvalidOperation")
             ELSE IF again = Raised("ZeroDivisionError") THEN _set_error(s, ErroText)
             ELSE IF again = Raised("ValueError") THEN Raise(s, "ValueError")
             ELSE Repeated(s, _format_decimal(again))
        ELSE s


press_equals(s0) ==
    LET s       == Called(s0)
        typed   == _to_decimal(s.display_text)
        current == IF s.reset_next_digit THEN s.stored_value ELSE typed
        result  == _apply_op(s.stored_value, s.pending_op, current)
        again   == _apply_op(typed, s.last_op, s.last_rhs)
    IN  IF s.error_state THEN s
        ELSE IF s.pending_op # NoOp /\ s.stored_value # None
        THEN IF typed = InvalidOperation THEN Raise(s, "InvalidOperation")
             ELSE IF result = Raised("ZeroDivisionError") THEN _set_error(s, ErroText)
             ELSE IF result = Raised("ValueError") THEN Raise(s, "ValueError")
             ELSE Completed(s, _format_decimal(result), current)
        ELSE IF s.last_op # NoOp /\ s.last_rhs # None
        THEN IF typed = InvalidOperation THEN Raise(s, "InvalidOperation")
             ELSE IF again = Raised("ZeroDivisionError") THEN _set_error(s, ErroText)
             ELSE IF again = Raised("ValueError") THEN Raise(s, "ValueError")
             ELSE Repeated(s, _format_decimal(again))
        ELSE s

(***************************************************************************)
(* Keys.  A key names the handler the caller invokes and its argument.     *)
(***************************************************************************)
Key(h, arg) == [h |-> h, arg |-> arg]

KDigit(d) == Key("press_digit", <<d>>)

KDecimal == Key("press_decimal", <<>>)

KOperator(spelling) == Key("press_operator", spelling)

KEquals == Key("press_equals", <<>>)

KClear == Key("press_clear", <<>>)

KClearEntry == Key("press_clear_entry", <<>>)

KBackspace == Key("press_backspace", <<>>)

KToggleSign == Key("press_toggle_sign", <<>>)

\* the state after the call that key k stands for
Press(s, k) ==
    CASE k.h = "press_digit"       -> press_digit(s, k.arg)
      [] k.h = "press_decimal"     -> press_decimal(s)
      [] k.h = "press_operator"    -> press_operator(s, k.arg)
      [] k.h = "press_equals"      -> press_equals(s)
      [] k.h = "press_clear"       -> press_clear(s)
      [] k.h = "press_clear_entry" -> press_clear_entry(s)
      [] k.h = "press_backspace"   -> press_backspace(s)
      [] k.h = "press_toggle_sign" -> press_toggle_sign(s)

\* the state after the first n keys of ks were pressed in state s
RECURSIVE PressAll(_, _, _)
PressAll(s, ks, n) ==
    IF n = 0 THEN s
    ELSE LET before == PressAll(s, ks, n - 1)
         IN  Strict(before, Press(before, ks[n]))

(***************************************************************************)
(* Callers.  The engine is driven by a caller that presses one key after   *)
(* the other.  A free caller presses any key of its keyboard, up to a      *)
(* number of keys; a scripted caller presses the keys of its script in     *)
(* order.  caller is fixed when the engine is constructed, pressed counts  *)
(* the keys pressed since.                                                 *)
(***************************************************************************)
MaxKeys == 5

MaxLongKeys == 13

MaxOperandLen == 2

MaxRepeats == 3

MaxTypedKeys == 34

MaxLiteralKeys == 4

FreeCaller(keyboard, limit) ==
    [kind |-> "free", keyboard |-> keyboard, limit |-> limit, script |-> <<>>]

ScriptedCaller(script) ==
    [kind |-> "script", keyboard |-> {}, limit |-> Len(script), script |-> script]

FullDigits == {"0", "1", "5"}

Operators == {"+", "-", "*", "/"}

\* every key of the GUI, the two glyph spellings, and two arguments that
\* the handlers reject
FullKeyboard ==
    {KDigit(d) : d \in FullDigits \cup {"x"}}
    \cup {KOperator(t) : t \in OperatorSpellings \cup {<<"%">>}}
    \cup {KDecimal, KEquals, KClear, KClearEntry, KBackspace, KToggleSign}

\* the keys that build large numbers quickly
LongKeyboard == {KDigit("9"), KOperator(<<"*">>), KEquals}

\* the keys that edit one long entry
TypingKeyboard == {KDigit("7"), KDecimal, KToggleSign, KBackspace}

FreeCallers ==
    {FreeCaller(FullKeyboard, MaxKeys), FreeCaller(LongKeyboard, MaxLongKeys),
     FreeCaller(TypingKeyboard, MaxTypedKeys)}

OperandKeys == {KDigit("0"), KDigit("3"), KDigit("5"), KDecimal}

\* the key sequences that type an operand: at most n keys, at most one
\* decimal point
RECURSIVE Operands(_)
Operands(n) ==
    IF n = 0 THEN {}
    ELSE {<<k>> : k \in OperandKeys}
         \cup {a \o <<k>> : a \in Operands(n - 1), k \in OperandKeys}

TypedOperands(n) ==
    {a \in Operands(n) : Cardinality({i \in 1..Len(a) : a[i] = KDecimal}) <= 1}

DigitOperands == {<<KDigit(d)>> : d \in {"0", "2", "5"}}

OpKey(op) == KOperator(<<op>>)

\* key sequences of the engine's tests
TestExample ==
    [
     ten_plus_two |->
         <<KDigit("1"), KDigit("0"), OpKey("+"), KDigit("2"), KEquals>>,
     chain |->
         <<KDigit("1"), KDigit("0"), OpKey("+"), KDigit("2"), OpKey("+"), KDigit("3"),
         KEquals>>,
     repeat |->
         <<KDigit("5"), OpKey("+"), KDigit("2"), KEquals, KEquals, KEquals>>,
     disarm |->
         <<KDigit("5"), OpKey("+"), KDigit("2"), KEquals, KDigit("1"), KEquals>>,
     division_by_zero |->
         <<KDigit("9"), OpKey("/"), KDigit("0"), KEquals, KDigit("7")>>,
     operator_equals |->
         <<KDigit("5"), OpKey("+"), KEquals>>,
     replacement |->
         <<KDigit("1"), KDigit("0"), OpKey("+"), OpKey("-"), KDigit("2"), KEquals>>,
     clear_entry |->
         <<KDigit("1"), KDigit("2"), OpKey("+"), KDigit("7"), KClearEntry, KDigit("5"),
         KEquals>>,
     toggle_sign |->
         <<KDigit("9"), KToggleSign, KToggleSign, KClear, KDigit("0"), KToggleSign>>,
     backspace |->
         <<KDigit("1"), KDigit("2"), KDigit("3"), KBackspace, KBackspace, KBackspace,
         KBackspace>>,
     \* more digits than the display holds, and then a decimal point
     long_entry |->
         [i \in 1..MaxTypedKeys |->
         IF i = MaxTypedKeys THEN KDecimal ELSE KDigit("7")],
     leading_zeros |->
         <<KDigit("0"), KDigit("0"), KDigit("0"), KDigit("1"), KDigit("2"), KDigit("3")>>,
     decimal_entry |->
         <<KDigit("0"), KDecimal, KDigit("5"), KClear, KDigit("1"), KDecimal, KDigit("2")>>,
     double_decimal |->
         <<KDigit("1"), KDecimal, KDigit("2"), KDecimal, KDigit("3")>>,
     secondary |->
         <<KDigit("1"), KDigit("0"), OpKey("+")>>,
     decimal_sum |->
         <<KDigit("0"), KDecimal, KDigit("1"), OpKey("+"),
         KDigit("0"), KDecimal, KDigit("2"), KEquals>>
    ]

\* key sequences that reach the branches of the engine the tests leave out
EngineExample ==
    LET Sevens(n) == <<KDecimal>> \o [i \in 1..n |-> KDigit("7")]
    IN
    [
     zero_then_digit |->
         <<KDigit("0"), KDigit("5")>>,
     \* a negative result too small for the display: . 0 1 +/- * = = * = = = =
     negative_underflow |->
         <<KDecimal, KDigit("0"), KDigit("1"), KToggleSign, KOperator(<<"*">>),
         KEquals, KEquals, KOperator(<<"*">>), KEquals, KEquals, KEquals, KEquals>>,
     \* a product whose integer part outgrows the display at the equals key
     overflow_equals |->
         <<KDigit("9"), KDigit("9"), KDigit("9"), KOperator(<<"*">>), KEquals,
         KOperator(<<"*">>), KEquals, KEquals, KOperator(<<"*">>), KEquals>>,
     \* a product whose integer part outgrows the display at an operator key
     overflow_chain |->
         <<KDigit("9"), KDigit("9"), KDigit("9"), KDigit("9"), KOperator(<<"*">>),
         KEquals, KOperator(<<"*">>), KEquals, KOperator(<<"*">>), KEquals,
         KOperator(<<"*">>), KDigit("9"), KOperator(<<"*">>)>>,
     \* the glyphs of the GUI, and a spelling that is not accepted: 8 / 2 % * 4 =
     glyphs |->
         <<KDigit("8"), KOperator(<<"U+00F7">>), KDigit("2"), KOperator(<<"%">>),
         KOperator(<<"U+00D7">>), KDigit("4"), KEquals>>,
     \* the equals key with nothing to compute
     equals_alone |->
         <<KDigit("1"), KDigit("5"), KEquals, KDigit("0")>>,
     \* quotients of 28 digits after three zeros: the last digit does not fit
     round_down |->
         <<KDecimal, KDigit("0"), KDigit("0"), KDigit("1"), OpKey("/"), KDigit("3"),
         KEquals>>,
     round_up |->
         <<KDecimal, KDigit("0"), KDigit("0"), KDigit("2"), OpKey("/"), KDigit("3"),
         KEquals>>,
     round_negative |->
         <<KDecimal, KDigit("0"), KDigit("0"), KDigit("1"), KToggleSign, OpKey("/"),
         KDigit("3"), KEquals>>,
     \* 0.5 * 0.1 = and then = again until the digit 5 leaves the display
     round_tie |->
         <<KDecimal, KDigit("5"), OpKey("*"), KDecimal, KDigit("1")>>
         \o [i \in 1..MAX_DISPLAY_LEN - 1 |-> KEquals],
     \* 9999 * = and then = again until the product outgrows the display
     repeat_overflow |->
         <<KDigit("9"), KDigit("9"), KDigit("9"), KDigit("9"), OpKey("*")>>
         \o [i \in 1..8 |-> KEquals],
     \* a division repeated: 8 / 2 = =
     repeat_division |->
         <<KDigit("8"), OpKey("/"), KDigit("2"), KEquals, KEquals>>,
     \* a result carried into a new operation: 8 / 2 = + 3 =
     carried_result |->
         <<KDigit("8"), OpKey("/"), KDigit("2"), KEquals, OpKey("+"), KDigit("3"),
           KEquals>>,
     \* a product of exactly PREC significant digits
     exact_product |->
         Sevens(PREC \div 2) \o <<OpKey("*")>> \o Sevens(PREC \div 2) \o <<KEquals>>,
     \* a product of PREC + 2 significant digits
     inexact_product |->
         Sevens(PREC \div 2 + 1) \o <<OpKey("*")>> \o Sevens(PREC \div 2 + 1)
         \o <<KEquals>>
    ]

\* 9 / 0 = and then one key
ErrorScripts ==
    {<<KDigit("9"), OpKey("/"), KDigit("0"), KEquals, k>> : k \in FullKeyboard}

\* the scripts of the scripted callers
Scripts ==
    LET
        \* a op b =
        BinaryScripts ==
            {a \o <<OpKey(op)>> \o b \o <<KEquals>> :
                a \in TypedOperands(MaxOperandLen), op \in Operators,
                b \in TypedOperands(MaxOperandLen)}

        \* a op1 b op2 c =
        ChainScripts ==
            {a \o <<OpKey(op1)>> \o b \o <<OpKey(op2)>> \o c \o <<KEquals>> :
                a \in DigitOperands, op1 \in Operators, b \in DigitOperands,
                op2 \in Operators, c \in DigitOperands}

        \* a op b = = .. =
        RepeatScripts ==
            {a \o <<OpKey(op)>> \o b \o [i \in 1..(MaxRepeats + 1) |-> KEquals] :
                a \in DigitOperands, op \in Operators, b \in DigitOperands}

        EditKeys == {KDigit("1"), KDecimal, KBackspace, KToggleSign, KClearEntry, KClear}

        \* a op b = k =
        DisarmScripts ==
            {a \o <<OpKey(op)>> \o b \o <<KEquals, k, KEquals>> :
                a \in DigitOperands, op \in Operators, b \in DigitOperands,
                k \in EditKeys}

        \* keys that type one entry
        TypedScripts == Operands(MaxLiteralKeys)

        \* a op =
        OperatorEqualsScripts ==
            {a \o <<OpKey(op), KEquals>> :
                a \in TypedOperands(MaxOperandLen), op \in Operators}

        \* a op1 op2 b =
        ReplaceScripts ==
            {a \o <<OpKey(op1), KOperator(op2)>> \o b \o <<KEquals>> :
                a \in DigitOperands, op1 \in Operators, op2 \in OperatorSpellings,
                b \in DigitOperands}

        \* a op b CE c =
        ClearEntryScripts ==
            {a \o <<OpKey(op)>> \o b \o <<KClearEntry>> \o c \o <<KEquals>> :
                a \in DigitOperands, op \in Operators, b \in DigitOperands,
                c \in DigitOperands}

        \* a op1 b = op2 c =
        CarryScripts ==
            {a \o <<OpKey(op1)>> \o b \o <<KEquals, OpKey(op2)>> \o c \o <<KEquals>> :
                a \in DigitOperands, op1 \in Operators, b \in DigitOperands,
                op2 \in Operators, c \in DigitOperands}

        ExampleScripts ==
            {TestExample[n] : n \in DOMAIN TestExample}
            \cup {EngineExample[n] : n \in DOMAIN EngineExample}
    IN  BinaryScripts \cup ChainScripts \cup RepeatScripts \cup DisarmScripts
        \cup ExampleScripts \cup ErrorScripts \cup OperatorEqualsScripts
        \cup ReplaceScripts \cup ClearEntryScripts \cup TypedScripts
        \cup CarryScripts

ScriptedCallers == {ScriptedCaller(script) : script \in Scripts}

Callers == FreeCallers \cup ScriptedCallers

\* the keys the caller may press next
NextKeys ==
    IF pressed >= caller.limit THEN {}
    ELSE IF caller.kind = "script" THEN {caller.script[pressed + 1]}
    ELSE caller.keyboard

\* the keys pressed so far, for a scripted caller
keys == SubSeq(caller.script, 1, pressed)

Commit(s) ==
    /\ display_text' = s.display_text
    /\ display_secondary' = s.display_secondary
    /\ stored_value' = s.stored_value
    /\ pending_op' = s.pending_op
    /\ reset_next_digit' = s.reset_next_digit
    /\ error_state' = s.error_state
    /\ last_op' = s.last_op
    /\ last_rhs' = s.last_rhs
    /\ raised' = s.raised
    /\ pressed' = pressed + 1
    /\ UNCHANGED caller

InitFor(callers) ==
    /\ display_text = reset.display_text
    /\ display_secondary = reset.display_secondary
    /\ stored_value = reset.stored_value
    /\ pending_op = reset.pending_op
    /\ reset_next_digit = reset.reset_next_digit
    /\ error_state = reset.error_state
    /\ last_op = reset.last_op
    /\ last_rhs = reset.last_rhs
    /\ raised = reset.raised
    /\ caller \in callers
    /\ pressed = 0

Init == InitFor(Callers)

PressDigit ==
    \E k \in NextKeys : k.h = "press_digit" /\ Commit(press_digit(State, k.arg))

PressDecimal ==
    \E k \in NextKeys : k.h = "press_decimal" /\ Commit(press_decimal(State))

PressOperator ==
    \E k \in NextKeys : k.h = "press_operator" /\ Commit(press_operator(State, k.arg))

PressEquals ==
    \E k \in NextKeys : k.h = "press_equals" /\ Commit(press_equals(State))

PressClear ==
    \E k \in NextKeys : k.h = "press_clear" /\ Commit(press_clear(State))

PressClearEntry ==
    \E k \in NextKeys : k.h = "press_clear_entry" /\ Commit(press_clear_entry(State))

PressBackspace ==
    \E k \in NextKeys : k.h = "press_backspace" /\ Commit(press_backspace(State))

PressToggleSign ==
    \E k \in NextKeys : k.h = "press_toggle_sign" /\ Commit(press_toggle_sign(State))

Next ==
    \/ PressDigit
    \/ PressDecimal
    \/ PressOperator
    \/ PressEquals
    \/ PressClear
    \/ PressClearEntry
    \/ PressBackspace
    \/ PressToggleSign

Spec == Init /\ [][Next]_vars

TypeOK ==
    /\ pending_op \in Operators \cup {NoOp}
    /\ last_op \in Operators \cup {NoOp}
    /\ reset_next_digit \in BOOLEAN
    /\ error_state \in BOOLEAN
    /\ pressed \in 0..caller.limit

(***************************************************************************)
(* Reading a script.  The scripts of the scripted callers have the shape   *)
(* a op b ..., where a and b are operands typed with digit keys and the    *)
(* decimal point.                                                          *)
(***************************************************************************)
IsOperandKey(k) ==
    \/ k = KDecimal
    \/ k.h = "press_digit" /\ Len(k.arg) = 1 /\ k.arg[1] \in DigitSet

\* ks types a number: operand keys only, at most one decimal point
IsOperand(ks) ==
    /\ Len(ks) > 0
    /\ \A i \in 1..Len(ks) : IsOperandKey(ks[i])
    /\ Cardinality({i \in 1..Len(ks) : ks[i] = KDecimal}) <= 1

\* the number that the operand keys ks denote
OperandValue(ks) ==
    LET point  == {i \in 1..Len(ks) : ks[i] = KDecimal}
        digits == SelectSeq(ks, LAMBDA k : k # KDecimal)
        coef   == [i \in 1..Len(digits) |-> DigitVal(digits[i].arg[1])]
        frac   == IF point = {} THEN 0 ELSE Len(ks) - MinOf(point)
    IN  Normal(Dec(0, IF coef = <<>> THEN <<0>> ELSE coef, 0 - frac))

OperatorKeys(script) ==
    {i \in 1..Len(script) : script[i].h = "press_operator"}

EqualsKeys(script) == {i \in 1..Len(script) : script[i] = KEquals}

FirstOp(script) == MinOf(OperatorKeys(script))

FirstEquals(script) == MinOf(EqualsKeys(script))

\* a op b = at the start of the script
StartsBinary(script) ==
    /\ OperatorKeys(script) # {}
    /\ EqualsKeys(script) # {}
    /\ FirstOp(script) < FirstEquals(script)
    /\ OperatorKeys(script) \cap 1..FirstEquals(script) = {FirstOp(script)}
    /\ IsOperand(SubSeq(script, 1, FirstOp(script) - 1))
    /\ IsOperand(SubSeq(script, FirstOp(script) + 1, FirstEquals(script) - 1))

LeftOperand(script) == OperandValue(SubSeq(script, 1, FirstOp(script) - 1))

Operator(script) == Normalize(Strip(script[FirstOp(script)].arg))

RightOperand(script) ==
    OperandValue(SubSeq(script, FirstOp(script) + 1, FirstEquals(script) - 1))

\* the script is a op b =
IsBinary(script) == StartsBinary(script) /\ FirstEquals(script) = Len(script)

\* r is a number, not an exception
IsNumber(r) == DOMAIN r = {"sign", "coef", "exp"}

\* op divides by b = 0
DividesByZero(op, b) == op = "/" /\ IsZero(b)

\* the caller runs a script and has pressed n keys of it
ScriptAt(n) == caller.kind = "script" /\ pressed = n

ScriptDone == ScriptAt(Len(caller.script))

(***************************************************************************)
(* C1.  Binary operation.                                                  *)
(***************************************************************************)
\* results of a op b = worked out by hand
BinaryExamples ==
    {<<TestExample.ten_plus_two, <<"1", "2">>>>,
     <<(<<KDigit("5"), OpKey("*"), KDigit("3"), KEquals>>), <<"1", "5">>>>,
     <<(<<KDigit("3"), OpKey("-"), KDigit("5"), KEquals>>), <<"-", "2">>>>,
     <<(<<KDigit("3"), OpKey("/"), KDecimal, KDigit("5"), KEquals>>), <<"6">>>>,
     <<(<<KDecimal, KDigit("5"), OpKey("*"), KDecimal, KDigit("5"), KEquals>>),
       <<"0", ".", "2", "5">>>>,
     <<(<<KDigit("3"), KDigit("0"), OpKey("+"), KDigit("5"), KDecimal, KEquals>>),
       <<"3", "5">>>>}

\* C1: when the caller has typed a op b = from the initial state, with b
\* not zero when op is /, display_text is the formatted value of a op b,
\* display_secondary is empty, no operation is pending, no value is stored
\* and reset_next_digit is true.
C1_BinaryOperation ==
    (ScriptDone /\ IsBinary(caller.script)) =>
        LET a  == LeftOperand(caller.script)
            op == Operator(caller.script)
            b  == RightOperand(caller.script)
        IN  \/ DividesByZero(op, b)
            \/ /\ display_text = _format_decimal(_apply_op(a, op, b)).text
               /\ display_secondary = <<>>
               /\ pending_op = NoOp
               /\ stored_value = None
               /\ reset_next_digit
               /\ ~error_state
               /\ \A e \in BinaryExamples :
                      caller.script = e[1] => display_text = e[2]

\* 5 / 3 = was typed, and the display shows the quotient to 28 digits
C1_Witness ==
    /\ ScriptDone
    /\ caller.script = <<KDigit("5"), OpKey("/"), KDigit("3"), KEquals>>
    /\ Len(display_text) = 29
    /\ display_text[29] = "7"
    /\ pending_op = NoOp

(***************************************************************************)
(* C2.  Chaining from left to right.                                       *)
(***************************************************************************)
\* the script is a op1 b op2 c =
IsChain(script) ==
    /\ Cardinality(OperatorKeys(script)) = 2
    /\ EqualsKeys(script) = {Len(script)}
    /\ LET i == FirstOp(script)
           j == MinOf(OperatorKeys(script) \ {i})
       IN  /\ IsOperand(SubSeq(script, 1, i - 1))
           /\ IsOperand(SubSeq(script, i + 1, j - 1))
           /\ IsOperand(SubSeq(script, j + 1, Len(script) - 1))

SecondOp(script) == MinOf(OperatorKeys(script) \ {FirstOp(script)})

ChainExamples ==
    {<<TestExample.chain, <<"1", "5">>>>,
     <<(<<KDigit("2"), OpKey("+"), KDigit("5"), OpKey("*"), KDigit("2"), KEquals>>),
       <<"1", "4">>>>,
     <<(<<KDigit("5"), OpKey("-"), KDigit("2"), OpKey("/"), KDigit("2"), KEquals>>),
       <<"1", ".", "5">>>>}

\* C2: when press_operator(op2) is called while an operation op1 is pending
\* and a new operand b was typed, and a op1 b has a value that fits the
\* display, stored_value becomes a op1 b, display_text its formatted value
\* and op2 the pending operation; and after a op1 b op2 c = the display
\* shows (a op1 b) op2 c, whatever the operators.
C2_Chaining ==
    /\ (~error_state /\ pending_op # NoOp /\ ~reset_next_digit) =>
           LET r == _apply_op(stored_value, pending_op, _to_decimal(display_text))
           IN  (IsNumber(r) /\ ~_format_decimal(r).overflow) =>
                   \A spelling \in OperatorSpellings :
                       LET s == press_operator(State, spelling)
                       IN  /\ s.stored_value = r
                           /\ s.display_text = _format_decimal(r).text
                           /\ s.pending_op = Normalize(spelling)
                           /\ s.reset_next_digit
                           /\ ~s.error_state
    /\ (caller.kind = "script" /\ IsChain(caller.script)) =>
           LET script == caller.script
               i  == FirstOp(script)
               j  == SecondOp(script)
               a  == OperandValue(SubSeq(script, 1, i - 1))
               b  == OperandValue(SubSeq(script, i + 1, j - 1))
               c  == OperandValue(SubSeq(script, j + 1, Len(script) - 1))
               r1 == _apply_op(a, script[i].arg[1], b)
               r2 == _apply_op(r1, script[j].arg[1], c)
           IN  /\ (pressed = j /\ IsNumber(r1)) =>
                      /\ stored_value = r1
                      /\ display_text = _format_decimal(r1).text
                      /\ pending_op = script[j].arg[1]
               /\ (pressed = Len(script) /\ IsNumber(r1) /\ IsNumber(r2)) =>
                      /\ display_text = _format_decimal(r2).text
                      /\ \A e \in ChainExamples :
                             script = e[1] => display_text = e[2]

\* 2 + 5 * 2 = was typed and shows 14, not 12
C2_Witness ==
    /\ ScriptDone
    /\ caller.script =
           <<KDigit("2"), OpKey("+"), KDigit("5"), OpKey("*"), KDigit("2"), KEquals>>
    /\ display_text = <<"1", "4">>

(***************************************************************************)
(* C3.  Repeat-equals.                                                     *)
(***************************************************************************)
\* the script is a op b = = .. =
IsRepeat(script) ==
    /\ StartsBinary(script)
    /\ \A i \in FirstEquals(script)..Len(script) : script[i] = KEquals

\* the value displayed after a op b = and n more =
RECURSIVE RepeatedValue(_, _, _, _)
RepeatedValue(a, op, b, n) ==
    IF n = 0 THEN _apply_op(a, op, b)
    ELSE _apply_op(_to_decimal(_format_decimal(RepeatedValue(a, op, b, n - 1)).text),
                   op, b)

\* C3: after a op b = completed, a further press_equals with no key in
\* between replaces the displayed value v by the formatted value of
\* v op b, when that fits the display, and leaves last_op and last_rhs
\* unchanged; so n more = apply op b n more times (5 + 2 = = = shows 11).
C3_RepeatEquals ==
    /\ (~error_state /\ pending_op = NoOp /\ last_op # NoOp /\ last_rhs # None) =>
           LET r == _apply_op(_to_decimal(display_text), last_op, last_rhs)
               s == press_equals(State)
           IN  (IsNumber(r) /\ ~_format_decimal(r).overflow) =>
                   /\ s.display_text = _format_decimal(r).text
                   /\ s.last_op = last_op
                   /\ s.last_rhs = last_rhs
                   /\ ~s.error_state
    /\ (caller.kind = "script" /\ IsRepeat(caller.script)
            /\ pressed >= FirstEquals(caller.script)) =>
           LET a  == LeftOperand(caller.script)
               op == Operator(caller.script)
               b  == RightOperand(caller.script)
               n  == pressed - FirstEquals(caller.script)
           IN  \/ DividesByZero(op, b)
               \/ /\ display_text = _format_decimal(RepeatedValue(a, op, b, n)).text
                  /\ last_op = op
                  /\ last_rhs = b
    /\ (caller.kind = "script" /\ caller.script = TestExample.repeat) =>
           /\ pressed = 4 => display_text = <<"7">>
           /\ pressed = 5 => display_text = <<"9">>
           /\ pressed = 6 => display_text = <<"1", "1">>

\* 5 + 2 = = = was typed and shows 11
C3_Witness ==
    /\ ScriptDone
    /\ caller.script = TestExample.repeat
    /\ display_text = <<"1", "1">>
    /\ last_op = "+"

(***************************************************************************)
(* C4.  Disarming repeat-equals.                                           *)
(***************************************************************************)
DisarmKeys ==
    {KDigit(d) : d \in DigitSet} \cup {KBackspace, KToggleSign, KClearEntry}

\* C4: whenever no operation is pending and no value is stored, each of
\* press_digit, press_backspace, press_toggle_sign and press_clear_entry
\* leaves last_op and last_rhs absent; and in a op b = k =, with k one of
\* these keys, the last = changes nothing (5 + 2 = 1 = shows 1).
C4_Disarm ==
    /\ (pending_op = NoOp /\ stored_value = None) =>
           \A k \in DisarmKeys :
               /\ Press(State, k).last_op = NoOp
               /\ Press(State, k).last_rhs = None
    /\ (ScriptDone /\ IsBinary(SubSeq(caller.script, 1, Len(caller.script) - 2))
            /\ caller.script[Len(caller.script) - 1] \in DisarmKeys
            /\ caller.script[Len(caller.script)] = KEquals) =>
           State = PressAll(reset, caller.script, Len(caller.script) - 1)
    /\ (ScriptDone /\ caller.script = TestExample.disarm) => display_text = <<"1">>

(***************************************************************************)
(* C5.  Division by zero.                                                  *)
(***************************************************************************)
\* s is the error state that shows Erro, entered by a call that returned
IsErro(s) ==
    /\ s.error_state
    /\ s.display_text = ErroText
    /\ s.display_secondary = <<>>
    /\ s.raised = "None"

\* C5: no call lets an exception escape; and whenever press_equals, or the
\* chaining step of press_operator, evaluates a pending or repeated / with
\* a right operand of zero, the engine enters the error state with display
\* Erro and an empty display_secondary.
C5_DivisionByZero ==
    /\ raised = "None"
    /\ (~error_state /\ pending_op = "/" /\ stored_value # None) =>
           /\ IsZero(IF reset_next_digit THEN stored_value
                     ELSE _to_decimal(display_text)) =>
                  IsErro(press_equals(State))
           /\ (~reset_next_digit /\ IsZero(_to_decimal(display_text))) =>
                  \A spelling \in OperatorSpellings :
                      IsErro(press_operator(State, spelling))
    /\ (~error_state /\ pending_op = NoOp /\ last_op = "/" /\ last_rhs # None
            /\ IsZero(last_rhs)) =>
           IsErro(press_equals(State))
    /\ (caller.kind = "script" /\ StartsBinary(caller.script)
            /\ pressed = FirstEquals(caller.script)
            /\ DividesByZero(Operator(caller.script), RightOperand(caller.script))) =>
           IsErro(State)
    /\ (caller.kind = "script" /\ IsChain(caller.script)
            /\ pressed = SecondOp(caller.script)
            /\ caller.script[FirstOp(caller.script)].arg = <<"/">>
            /\ IsZero(OperandValue(SubSeq(caller.script, FirstOp(caller.script) + 1,
                                          SecondOp(caller.script) - 1)))) =>
           IsErro(State)

\* 5 / 0 + was typed: the chaining step divided by zero
C5_Witness ==
    /\ ScriptAt(4)
    /\ IsChain(caller.script)
    /\ SubSeq(caller.script, 1, 3) = <<KDigit("5"), OpKey("/"), KDigit("0")>>
    /\ IsErro(State)

(***************************************************************************)
(* C6.  Soft recovery from the error state.                                *)
(***************************************************************************)
RecoveryKeys ==
    {KDigit(d) : d \in DigitSet} \cup {KDecimal, KToggleSign}

\* C6: in the error state, press_digit with a digit, press_decimal and
\* press_toggle_sign give exactly the state that the same key gives in the
\* initial state.
C6_SoftRecovery ==
    error_state => \A k \in RecoveryKeys : Press(State, k) = Press(reset, k)

\* 9 / 0 = 7 was typed: the 7 was pressed in the error state
C6_Witness ==
    /\ ScriptDone
    /\ caller.script = TestExample.division_by_zero
    /\ State = press_digit(reset, <<"7">>)

(***************************************************************************)
(* C7.  Keys without effect in the error state.                            *)
(***************************************************************************)
\* C7: in the error state, press_backspace, press_operator and press_equals
\* leave every field as it is.
C7_ErrorNoOps ==
    error_state =>
        /\ press_backspace(State) = State
        /\ press_equals(State) = State
        /\ \A spelling \in OperatorSpellings \cup {<<"%">>} :
               press_operator(State, spelling) = State

\* 9 / 0 = was typed and then backspace, and Erro is still displayed
C7_Witness ==
    /\ ScriptDone
    /\ caller.script =
           <<KDigit("9"), OpKey("/"), KDigit("0"), KEquals, KBackspace>>
    /\ error_state
    /\ display_text = ErroText

(***************************************************************************)
(* C8.  The pending operation and the stored value go together.            *)
(***************************************************************************)
\* C8: in every reachable state, pending_op is absent exactly when
\* stored_value is absent.
C8_PendingIffStored == (pending_op = NoOp) <=> (stored_value = None)

\* an error state entered while an operation was pending: 9 / 0 =
C8_Witness ==
    /\ ScriptAt(4)
    /\ SubSeq(caller.script, 1, 4) =
           <<KDigit("9"), OpKey("/"), KDigit("0"), KEquals>>
    /\ error_state
    /\ pending_op = NoOp
    /\ stored_value = None

(***************************************************************************)
(* C9.  The error state holds no operation.                                *)
(***************************************************************************)
\* C9: whenever error_state is true, stored_value and pending_op are absent
\* and display_secondary is empty.
C9_ErrorHoldsNoOperation ==
    error_state =>
        /\ stored_value = None
        /\ pending_op = NoOp
        /\ display_secondary = <<>>

\* the error state that shows Overflow
C9_Witness ==
    /\ error_state
    /\ display_text = OverflowText
    /\ display_secondary = <<>>
    /\ caller.kind = "free"

(***************************************************************************)
(* C10.  The error state holds no repeat memory.                           *)
(***************************************************************************)
\* C10: whenever error_state is true, last_op and last_rhs are absent.
C10_ErrorHoldsNoRepeatMemory ==
    error_state => (last_op = NoOp /\ last_rhs = None)

(***************************************************************************)
(* C11.  The error state shows in the display.                             *)
(***************************************************************************)
SentinelTexts == {ErroText, OverflowText}

\* C11: in every reachable state, error_state is true exactly when
\* display_text is one of the sentinel texts Erro and Overflow.
C11_ErrorIffSentinel == error_state <=> display_text \in SentinelTexts

\* the error state of a division by zero, entered by a free caller
C11_Witness ==
    /\ caller.kind = "free"
    /\ error_state
    /\ display_text = ErroText

(***************************************************************************)
(* C12.  The length of the display.                                        *)
(***************************************************************************)
\* C12: in every reachable state, display_text has at most MAX_DISPLAY_LEN
\* characters.
C12_DisplayLength == Len(display_text) <= MAX_DISPLAY_LEN

\* a computed result that fills the display
C12_Witness ==
    /\ Len(display_text) = MAX_DISPLAY_LEN
    /\ reset_next_digit
    /\ ~error_state
    /\ last_op = "*"

(***************************************************************************)
(* C13.  Keystrokes dropped at the length limit.                           *)
(***************************************************************************)
\* C13: outside the error state, with reset_next_digit false and an entry
\* of MAX_DISPLAY_LEN characters, press_digit and press_decimal leave
\* every field as it is.
C13_DroppedKeystrokes ==
    (~error_state /\ ~reset_next_digit /\ Len(display_text) >= MAX_DISPLAY_LEN) =>
        /\ \A d \in DigitSet : press_digit(State, <<d>>) = State
        /\ press_decimal(State) = State

\* more than MAX_DISPLAY_LEN digits and a decimal point were typed
C13_Witness ==
    /\ ScriptDone
    /\ caller.script = TestExample.long_entry
    /\ display_text = [i \in 1..MAX_DISPLAY_LEN |-> "7"]
    /\ ~error_state

(***************************************************************************)
(* C14.  Full reset.                                                       *)
(***************************************************************************)
\* C14: press_clear in any reachable state, and press_clear_entry in any
\* error state, leave the engine in exactly the initial state.
C14_FullReset ==
    /\ press_clear(State) = reset
    /\ error_state => press_clear_entry(State) = reset
    /\ (ScriptDone /\ Len(caller.script) > 0
            /\ caller.script[Len(caller.script)] = KClear) =>
           State = reset
    /\ (ScriptDone /\ caller.script \in ErrorScripts
            /\ caller.script[Len(caller.script)] = KClearEntry) =>
           State = reset

\* 9 / 0 = CE was typed
C14_Witness ==
    /\ ScriptDone
    /\ caller.script =
           <<KDigit("9"), OpKey("/"), KDigit("0"), KEquals, KClearEntry>>
    /\ State = reset

(***************************************************************************)
(* C15.  Clear entry.                                                      *)
(***************************************************************************)
\* the script is a op b CE c =
IsClearEntry(script) ==
    /\ Cardinality(OperatorKeys(script)) = 1
    /\ EqualsKeys(script) = {Len(script)}
    /\ \E j \in (FirstOp(script) + 2)..(Len(script) - 2) :
           /\ script[j] = KClearEntry
           /\ IsOperand(SubSeq(script, 1, FirstOp(script) - 1))
           /\ IsOperand(SubSeq(script, FirstOp(script) + 1, j - 1))
           /\ IsOperand(SubSeq(script, j + 1, Len(script) - 1))

ClearEntryAt(script) ==
    MinOf({j \in 1..Len(script) : script[j] = KClearEntry})

\* C15: outside the error state, press_clear_entry sets display_text to 0
\* and reset_next_digit to false and leaves stored_value, pending_op and
\* display_secondary as they are; so after a op b CE c = the display shows
\* a op c (12 + 7 CE 5 = shows 17).
C15_ClearEntry ==
    /\ ~error_state =>
           LET s == press_clear_entry(State)
           IN  /\ s.display_text = ZeroText
               /\ ~s.reset_next_digit
               /\ s.stored_value = stored_value
               /\ s.pending_op = pending_op
               /\ s.display_secondary = display_secondary
               /\ ~s.error_state
    /\ (ScriptDone /\ IsClearEntry(caller.script)) =>
           LET script == caller.script
               a  == LeftOperand(script)
               op == Operator(script)
               c  == OperandValue(SubSeq(script, ClearEntryAt(script) + 1,
                                         Len(script) - 1))
           IN  \/ DividesByZero(op, c)
               \/ display_text = _format_decimal(_apply_op(a, op, c)).text
    /\ (ScriptDone /\ caller.script = TestExample.clear_entry) =>
           display_text = <<"1", "7">>

\* 12 + 7 CE 5 = was typed and shows 17
C15_Witness ==
    /\ ScriptDone
    /\ caller.script = TestExample.clear_entry
    /\ display_text = <<"1", "7">>
    /\ last_rhs = Dec(0, <<5>>, 0)

(***************************************************************************)
(* C16.  Equals right after an operator.                                   *)
(***************************************************************************)
\* the script is a op =
IsOperatorEquals(script) ==
    /\ Len(script) >= 3
    /\ script[Len(script)] = KEquals
    /\ script[Len(script) - 1].h = "press_operator"
    /\ IsOperand(SubSeq(script, 1, Len(script) - 2))

\* C16: when press_equals is called with an operation pending and
\* reset_next_digit true, and a op a has a value that fits the display,
\* the stored value a is the right operand as well: the display shows
\* a op a and last_rhs is a (5 + = shows 10).
C16_EqualsAfterOperator ==
    /\ (~error_state /\ pending_op # NoOp /\ reset_next_digit) =>
           LET r == _apply_op(stored_value, pending_op, stored_value)
               s == press_equals(State)
           IN  (IsNumber(r) /\ ~_format_decimal(r).overflow) =>
                   /\ s.display_text = _format_decimal(r).text
                   /\ s.last_rhs = stored_value
                   /\ s.last_op = pending_op
                   /\ s.pending_op = NoOp
                   /\ s.stored_value = None
    /\ (ScriptDone /\ IsOperatorEquals(caller.script)) =>
           LET a  == LeftOperand(caller.script)
               op == Operator(caller.script)
           IN  \/ DividesByZero(op, a)
               \/ /\ display_text = _format_decimal(_apply_op(a, op, a)).text
                  /\ last_rhs = a
                  /\ last_op = op
    /\ (ScriptDone /\ caller.script = TestExample.operator_equals) =>
           display_text = <<"1", "0">>

\* 5 + = was typed and shows 10
C16_Witness ==
    /\ ScriptDone
    /\ caller.script = TestExample.operator_equals
    /\ display_text = <<"1", "0">>
    /\ last_rhs = Dec(0, <<5>>, 0)

(***************************************************************************)
(* C17.  Replacing the pending operator.                                   *)
(***************************************************************************)
\* the script is a op1 op2 b =
IsReplace(script) ==
    /\ Cardinality(OperatorKeys(script)) = 2
    /\ EqualsKeys(script) = {Len(script)}
    /\ FirstOp(script) + 1 \in OperatorKeys(script)
    /\ IsOperand(SubSeq(script, 1, FirstOp(script) - 1))
    /\ IsOperand(SubSeq(script, FirstOp(script) + 2, Len(script) - 1))

\* C17: press_operator with an operation pending and reset_next_digit true
\* evaluates nothing: it replaces pending_op, and the operator at the end
\* of display_secondary, and leaves every other field as it is; so
\* a op1 op2 b = shows a op2 b (10 + - 2 = shows 8).
C17_OperatorReplacement ==
    /\ (~error_state /\ pending_op # NoOp /\ reset_next_digit) =>
           \A spelling \in OperatorSpellings :
               press_operator(State, spelling) =
                   [State EXCEPT
                       !.pending_op = Normalize(spelling),
                       !.display_secondary =
                           SubSeq(@, 1, Len(@) - 1)
                           \o <<_op_for_display(Normalize(spelling))>>]
    /\ (ScriptDone /\ IsReplace(caller.script)) =>
           LET script == caller.script
               a  == LeftOperand(script)
               op == Normalize(Strip(script[FirstOp(script) + 1].arg))
               b  == OperandValue(SubSeq(script, FirstOp(script) + 2,
                                         Len(script) - 1))
           IN  \/ DividesByZero(op, b)
               \/ display_text = _format_decimal(_apply_op(a, op, b)).text
    /\ (ScriptDone /\ caller.script = TestExample.replacement) =>
           display_text = <<"8">>

\* 10 + - 2 = was typed and shows 8
C17_Witness ==
    /\ ScriptDone
    /\ caller.script = TestExample.replacement
    /\ display_text = <<"8">>
    /\ last_op = "-"

(***************************************************************************)
(* C18.  Toggling the sign of a nonzero entry.                             *)
(***************************************************************************)
\* the number that the text t denotes is zero
ShowsZero(t) == IsNumber(_to_decimal(t)) /\ IsZero(_to_decimal(t))

\* the number that the text t denotes is not zero
ShowsNonzero(t) == IsNumber(_to_decimal(t)) /\ ~IsZero(_to_decimal(t))

\* t with its leading minus sign removed, or with one added when it fits
Toggled(t) ==
    IF t[1] = "-" THEN Tail(t)
    ELSE IF Len(t) + 1 <= MAX_DISPLAY_LEN THEN <<"-">> \o t
    ELSE t

\* C18 as stated: in every state outside the error state whose display
\* shows a nonzero number, press_toggle_sign removes the leading minus sign
\* of display_text, or adds one when the text still fits, and a second
\* press_toggle_sign restores display_text.
C18_ToggleSign_EveryState ==
    (~error_state /\ ShowsNonzero(display_text)) =>
        LET s == press_toggle_sign(State)
        IN  /\ s.display_text = Toggled(display_text)
            /\ press_toggle_sign(s).display_text = display_text

\* C18: outside the error state, with reset_next_digit false and a display
\* that shows a nonzero number, press_toggle_sign changes display_text
\* only: it removes the leading minus sign, or adds one when the text
\* still fits, and a second press_toggle_sign restores display_text; with
\* reset_next_digit true it starts a new entry, and display_text becomes 0.
C18_ToggleSign ==
    /\ (~error_state /\ ~reset_next_digit /\ ShowsNonzero(display_text)) =>
           LET s == press_toggle_sign(State)
           IN  /\ s = [State EXCEPT !.display_text = Toggled(display_text)]
               /\ press_toggle_sign(s) = State
    /\ (~error_state /\ reset_next_digit) =>
           LET s == press_toggle_sign(State)
           IN  /\ s.display_text = ZeroText
               /\ ~s.reset_next_digit
    /\ (caller.kind = "script" /\ caller.script = TestExample.toggle_sign) =>
           /\ pressed = 2 => display_text = <<"-", "9">>
           /\ pressed = 3 => display_text = <<"9">>

\* 9 and two sign toggles were typed, and 9 is displayed again
C18_Witness ==
    /\ ScriptAt(3)
    /\ caller.script = TestExample.toggle_sign
    /\ display_text = <<"9">>

(***************************************************************************)
(* C19.  Toggling the sign of zero.                                        *)
(***************************************************************************)
\* C19: in every state outside the error state whose display shows a
\* zero, such as 0, 0. or 0.0, press_toggle_sign leaves display_text as
\* it is, without a leading minus sign.
C19_ToggleSignOfZero ==
    (~error_state /\ ShowsZero(display_text)) =>
        LET s == press_toggle_sign(State)
        IN  /\ s.display_text = display_text
            /\ s.display_text[1] # "-"

(***************************************************************************)
(* C20.  Backspace.                                                        *)
(***************************************************************************)
\* t without its last character; nothing, a bare minus sign and -0 are 0
Erased(t) ==
    LET u == SubSeq(t, 1, Len(t) - 1)
    IN  IF u \in {<<>>, <<"-">>, <<"-", "0">>} THEN ZeroText ELSE u

\* C20 as stated: in every state outside the error state, press_backspace
\* changes nothing when display_text is 0, and otherwise removes the last
\* character of display_text, where nothing, a bare minus sign and -0
\* become 0.
C20_Backspace_EveryState ==
    ~error_state =>
        LET s == press_backspace(State)
        IN  IF display_text = ZeroText THEN s = State
            ELSE s.display_text = Erased(display_text)

\* C20: outside the error state and with reset_next_digit false,
\* press_backspace changes nothing when display_text is 0, and otherwise
\* only removes the last character of display_text, where nothing, a bare
\* minus sign and -0 become 0; with reset_next_digit true it starts a new
\* entry, and display_text becomes 0.
C20_Backspace ==
    /\ (~error_state /\ ~reset_next_digit) =>
           LET s == press_backspace(State)
           IN  IF display_text = ZeroText THEN s = State
               ELSE s = [State EXCEPT !.display_text = Erased(display_text)]
    /\ (~error_state /\ reset_next_digit) =>
           LET s == press_backspace(State)
           IN  /\ s.display_text = ZeroText
               /\ ~s.reset_next_digit
    /\ (caller.kind = "script" /\ caller.script = TestExample.backspace) =>
           /\ pressed = 4 => display_text = <<"1", "2">>
           /\ pressed = 5 => display_text = <<"1">>
           /\ pressed >= 6 => display_text = ZeroText

\* 1 2 3 and one backspace were typed, and 12 is displayed
C20_Witness ==
    /\ ScriptAt(4)
    /\ caller.script = TestExample.backspace
    /\ display_text = <<"1", "2">>

(***************************************************************************)
(* C21.  The display is a well-formed number.                              *)
(***************************************************************************)
\* an optional minus sign, an integer part that is 0 or starts with a
\* digit other than 0, and at most one decimal point after it
IsWellFormed(t) ==
    LET u == IF t # <<>> /\ t[1] = "-" THEN Tail(t) ELSE t
        n == IF Contains(u, ".")
             THEN SubSeq(u, 1, MinOf({i \in 1..Len(u) : u[i] = "."}) - 1)
             ELSE u
    IN  /\ \A i \in 1..Len(u) : u[i] \in DigitSet \cup {"."}
        /\ Cardinality({i \in 1..Len(u) : u[i] = "."}) <= 1
        /\ Len(n) >= 1
        /\ n = ZeroText \/ n[1] # "0"

C22_TypedLiteral ==
    LET TypedText(ks) ==
            [i \in 1..Len(ks) |-> IF ks[i] = KDecimal THEN "." ELSE ks[i].arg[1]]
        IsLiteral(ks) ==
            /\ IsOperand(ks)
            /\ Len(ks) <= MAX_DISPLAY_LEN
            /\ ks[1] # KDecimal
            /\ (Len(ks) > 1 /\ ks[1] = KDigit("0")) => ks[2] = KDecimal
    IN  /\ (caller.kind = "script" /\ pressed > 0 /\ IsLiteral(keys)) =>
               /\ get_display(State) = TypedText(keys)
               /\ ~error_state
        /\ (caller.kind = "script" /\ caller.script = TestExample.leading_zeros) =>
               /\ pressed \in 1..3 => display_text = ZeroText
               /\ pressed = 6 => display_text = <<"1", "2", "3">>
        /\ (ScriptDone /\ caller.script = EngineExample.zero_then_digit) =>
               display_text = <<"5">>
        /\ (caller.kind = "script" /\ caller.script = TestExample.decimal_entry) =>
               /\ pressed = 3 => display_text = <<"0", ".", "5">>
               /\ pressed = 7 => display_text = <<"1", ".", "2">>
        /\ (ScriptDone /\ caller.script = TestExample.double_decimal) =>
               display_text = <<"1", ".", "2", "3">>

\* a literal of four characters with a decimal point was typed
C22_Witness ==
    /\ ScriptDone
    /\ caller.script = <<KDigit("3"), KDigit("0"), KDecimal, KDigit("5")>>
    /\ display_text = <<"3", "0", ".", "5">>

(***************************************************************************)
(* C23.  The display never shows -0.                                       *)
(***************************************************************************)
\* C23: display_text is never exactly -0 in any reachable state: a value
\* that is zero, or that becomes zero when it is rounded to fit the
\* display, is shown as 0.
C23_NeverMinusZero == display_text # <<"-", "0">>

(***************************************************************************)
(* C24.  Formatter overflow law.                                           *)
(***************************************************************************)
\* the number of characters of the sign and the integer part of value d
IntegerLength(d) ==
    LET c      == StripLeft(d.coef)
        digits == IF IsZero(d) \/ Len(c) + d.exp <= 0 THEN 1 ELSE Len(c) + d.exp
    IN  (IF d.sign = 1 /\ ~IsZero(d) THEN 1 ELSE 0) + digits

\* the value that press_equals computes in state s, None when it computes
\* no value
EqualsValue(s) ==
    LET typed == _to_decimal(s.display_text)
    IN  IF s.error_state THEN None
        ELSE IF s.pending_op # NoOp /\ s.stored_value # None
        THEN _apply_op(s.stored_value, s.pending_op,
                       IF s.reset_next_digit THEN s.stored_value ELSE typed)
        ELSE IF s.last_op # NoOp /\ s.last_rhs # None
        THEN _apply_op(typed, s.last_op, s.last_rhs)
        ELSE None

\* the value that press_operator computes in state s, None when it does
\* not chain
ChainValue(s) ==
    IF ~s.error_state /\ s.pending_op # NoOp /\ s.stored_value # None
       /\ ~s.reset_next_digit
    THEN _apply_op(s.stored_value, s.pending_op, _to_decimal(s.display_text))
    ELSE None

\* C24: whenever the result that press_equals or a chaining press_operator
\* computes has a sign plus integer part longer than MAX_DISPLAY_LEN, the
\* call ends with display_text equal to Overflow and error_state true.
C24_OverflowLaw ==
    LET TooLong(v) == IsNumber(v) /\ IntegerLength(v) > MAX_DISPLAY_LEN
        ShowsOverflow(s) == s.display_text = OverflowText /\ s.error_state
    IN  /\ TooLong(EqualsValue(State)) => ShowsOverflow(press_equals(State))
        /\ TooLong(ChainValue(State)) =>
               \A op \in OperatorSpellings :
                   ShowsOverflow(press_operator(State, op))
        /\ (ScriptAt(9) /\ caller.script = EngineExample.overflow_equals) =>
               TooLong(EqualsValue(State))
        /\ (ScriptAt(12) /\ caller.script = EngineExample.overflow_chain) =>
               TooLong(ChainValue(State))

\* the product 9999^8 * 9 has 33 digits: the operator key that chains it
\* ends in the error state
C24_Witness ==
    /\ ScriptDone
    /\ caller.script = EngineExample.overflow_chain
    /\ error_state
    /\ display_text = OverflowText

(***************************************************************************)
(* C25.  Exact decimal arithmetic.                                         *)
(***************************************************************************)
\* a op b with every digit kept, for op other than /
Exact(a, op, b) ==
    LET Sum(x, y) ==
            LET e  == MinOf({x.exp, y.exp})
                cx == StripLeft(x.coef \o Zeros(x.exp - e))
                cy == StripLeft(y.coef \o Zeros(y.exp - e))
                c  == CmpNat(cx, cy)
            IN  IF x.sign = y.sign THEN Normal(Dec(x.sign, AddNat(cx, cy), e))
                ELSE IF c = 0 THEN DecZero
                ELSE IF c > 0 THEN Normal(Dec(x.sign, SubNat(cx, cy), e))
                ELSE Normal(Dec(y.sign, SubNat(cy, cx), e))
    IN  IF op = "+" THEN Sum(a, b)
        ELSE IF op = "-" THEN Sum(a, DecNeg(b))
        ELSE Normal(Dec((a.sign + b.sign) % 2, MulNat(a.coef, b.coef),
                        a.exp + b.exp))

\* the fixed-point text of d, which has no trailing zero in its fraction
ExactText(d) ==
    LET n     == Normal(d)
        c     == n.coef
        k     == 0 - n.exp
        minus == IF n.sign = 1 /\ ~IsZero(n) THEN <<"-">> ELSE <<>>
    IN  minus \o
        (IF n.exp >= 0 THEN DigitsToText(c \o Zeros(n.exp))
         ELSE IF Len(c) > k
         THEN DigitsToText(SubSeq(c, 1, Len(c) - k)) \o <<".">>
              \o DigitsToText(SubSeq(c, Len(c) - k + 1, Len(c)))
         ELSE <<"0", ".">> \o DigitsToText(Zeros(k - Len(c)) \o c))

\* the exact value of a op b for the script a op b =
ExactResult(script) ==
    Exact(LeftOperand(script), Operator(script), RightOperand(script))

\* C25 as stated: for typed operands a and b, a + b =, a - b = and
\* a * b = display the exact decimal result, without trailing zeros of the
\* fraction and without a trailing decimal point.
C25_ExactArithmetic_EveryResult ==
    (ScriptDone /\ IsBinary(caller.script) /\ Operator(caller.script) # "/") =>
        display_text = ExactText(ExactResult(caller.script))

\* C25: for typed operands a and b whose exact sum, difference or product
\* has at most PREC significant digits and a fixed-point text of at most
\* MAX_DISPLAY_LEN characters, a + b =, a - b = and a * b = display that
\* exact result, without trailing zeros of the fraction and without a
\* trailing decimal point; 0.1 + 0.2 = shows 0.3.
C25_ExactArithmetic ==
    /\ (ScriptDone /\ IsBinary(caller.script) /\ Operator(caller.script) # "/"
            /\ Len(Normal(ExactResult(caller.script)).coef) <= PREC
            /\ Len(ExactText(ExactResult(caller.script))) <= MAX_DISPLAY_LEN) =>
           /\ display_text = ExactText(ExactResult(caller.script))
           /\ ~error_state
    /\ (ScriptDone /\ caller.script = TestExample.decimal_sum) =>
           display_text = <<"0", ".", "3">>
    /\ (ScriptDone /\ caller.script = EngineExample.exact_product) =>
           Len(Normal(ExactResult(caller.script)).coef) = PREC

\* the product of two fractions of 14 digits is shown with its 28 digits
C25_Witness ==
    /\ ScriptDone
    /\ caller.script = EngineExample.exact_product
    /\ Len(display_text) = PREC + 2
    /\ display_text = ExactText(ExactResult(caller.script))

(***************************************************************************)
(* C26.  The secondary display.                                            *)
(***************************************************************************)
\* C26: in every reachable state display_secondary is empty if and only if
\* no operation is pending; while an operation is pending it is the
\* formatted stored_value, one space and the display symbol of pending_op.
C26_SecondaryDisplay ==
    /\ (get_secondary(State) = <<>>) <=> (pending_op = NoOp)
    /\ pending_op # NoOp =>
           /\ stored_value # None
           /\ display_secondary = _format_decimal(stored_value).text
                                      \o <<" ", _op_for_display(pending_op)>>
    /\ (ScriptDone /\ caller.script = TestExample.secondary) =>
           display_secondary = <<"1", "0", " ", "+">>
    /\ (pending_op = "*" /\ stored_value = Dec(1, <<5>>, 0)) =>
           display_secondary = <<"-", "5", " ", "U+00D7">>

\* -5 times is pending
C26_Witness ==
    /\ caller.kind = "free"
    /\ pending_op = "*"
    /\ stored_value = Dec(1, <<5>>, 0)
    /\ display_secondary = <<"-", "5", " ", "U+00D7">>

(***************************************************************************)
(* C27.  Rounding to fit the display.                                      *)
(***************************************************************************)
\* d rounded half up to k fractional digits
HalfUp(d, k) ==
    LET n     == Normal(d)
        drop  == 0 - n.exp - k
        c     == Zeros(drop + 1) \o n.coef
        kept  == StripLeft(SubSeq(c, 1, Len(c) - drop))
        units == IF drop <= 0 THEN StripLeft(n.coef \o Zeros(0 - drop))
                 ELSE IF c[Len(c) - drop + 1] >= 5 THEN AddNat(kept, <<1>>)
                 ELSE kept
    IN  Dec(d.sign, units, 0 - k)

\* the fixed-point text of d is too long, but its sign and integer part fit
FractionTooLong(d) ==
    /\ IsNumber(d)
    /\ Len(ExactText(d)) > MAX_DISPLAY_LEN
    /\ IntegerLength(d) <= MAX_DISPLAY_LEN

\* f is the rounded rendering of d; the sign shown with a value that is
\* rounded to zero is the subject of C23
FitsRounded(f, d) ==
    LET k == MAX_DISPLAY_LEN - IntegerLength(d) - 1
        r == HalfUp(d, k)
        t == ExactText(d)
    IN  /\ ~f.overflow
        /\ Len(f.text) <= MAX_DISPLAY_LEN
        /\ IF k <= 0 THEN f.text = SubSeq(t, 1, IndexOf(t, ".") - 1)
           ELSE IF IsZero(r) THEN f.text \in {ZeroText, <<"-", "0">>}
           ELSE f.text = ExactText(r)

\* C27: when the fixed-point text of a result is longer than
\* MAX_DISPLAY_LEN only because of its fraction, _format_decimal does not
\* call for Overflow: it returns a text of at most MAX_DISPLAY_LEN
\* characters, the value rounded half up to MAX_DISPLAY_LEN - sign length -
\* integer digits - 1 fractional digits without trailing zeros, or the sign
\* and the integer part when no fractional digit fits; and the handler
\* shows that text.
C27_RoundToFit ==
    /\ FractionTooLong(EqualsValue(State)) =>
           /\ FitsRounded(_format_decimal(EqualsValue(State)), EqualsValue(State))
           /\ press_equals(State).display_text
                  = _format_decimal(EqualsValue(State)).text
           /\ ~press_equals(State).error_state
    /\ FractionTooLong(ChainValue(State)) =>
           /\ FitsRounded(_format_decimal(ChainValue(State)), ChainValue(State))
           /\ \A op \in OperatorSpellings :
                  /\ press_operator(State, op).display_text
                         = _format_decimal(ChainValue(State)).text
                  /\ ~press_operator(State, op).error_state
    /\ (caller.kind = "script" /\ pressed = Len(caller.script) - 1
            /\ caller.script \in {EngineExample.round_down, EngineExample.round_up,
                                  EngineExample.round_negative}) =>
           FractionTooLong(EqualsValue(State))
    /\ (ScriptDone /\ caller.script = EngineExample.round_down) =>
           display_text = <<"0", ".", "0", "0", "0">> \o [i \in 1..27 |-> "3"]
    /\ (ScriptDone /\ caller.script = EngineExample.round_negative) =>
           display_text = <<"-", "0", ".", "0", "0", "0">> \o [i \in 1..26 |-> "3"]
    /\ (caller.kind = "script" /\ caller.script = EngineExample.round_tie) =>
           /\ pressed = Len(caller.script) - 1 =>
                  display_text = <<"0", ".">> \o [i \in 1..29 |-> "0"] \o <<"1">>
           /\ ScriptDone => display_text = ZeroText

\* 0.002 / 3 = shows 0.000666...67: the last digit that fits was rounded up
C27_Witness ==
    /\ ScriptDone
    /\ caller.script = EngineExample.round_up
    /\ Len(display_text) = MAX_DISPLAY_LEN
    /\ display_text[MAX_DISPLAY_LEN - 1] = "6"
    /\ display_text[MAX_DISPLAY_LEN] = "7"

(***************************************************************************)
(* C28.  The equals key with nothing to compute.                           *)
(***************************************************************************)
\* C28: in every non-error state in which pending_op, stored_value,
\* last_op and last_rhs are all absent, press_equals changes no field of
\* the state; so after 1 5 = the display still shows 15 and the next digit
\* is appended to it.
C28_EqualsNoOp ==
    LET NothingToCompute(s) ==
            /\ ~s.error_state
            /\ s.pending_op = NoOp
            /\ s.stored_value = None
            /\ s.last_op = NoOp
            /\ s.last_rhs = None
    IN  /\ NothingToCompute(State) => press_equals(State) = State
        /\ (caller.kind = "script" /\ caller.script = EngineExample.equals_alone) =>
               /\ pressed = 3 =>
                      /\ display_text = <<"1", "5">>
                      /\ ~reset_next_digit
                      /\ NothingToCompute(State)
               /\ pressed = 4 => display_text = <<"1", "5", "0">>

\* 1 5 = was typed: the entry 15 is still open
C28_Witness ==
    /\ ScriptAt(3)
    /\ caller.script = EngineExample.equals_alone
    /\ display_text = <<"1", "5">>
    /\ ~reset_next_digit
    /\ last_op = NoOp

Armed(s) == ~s.error_state /\ s.last_op # NoOp /\ s.pending_op = NoOp

\* C30: in every reachable non-error state in which last_op is present and
\* no operation is pending, reset_next_digit is true and display_text is
\* the text that the most recent equals key produced: the last key pressed
\* was the equals key, and every other key either changes nothing or
\* leaves a state in which repeat-equals is not armed; so 5 + 2 = 1 =
\* shows 1.
C30_RepeatOnUntouchedResult ==
    /\ Armed(State) => reset_next_digit
    /\ \A k \in FullKeyboard \ {KEquals} :
           Armed(Press(State, k)) => Press(State, k) = State
    /\ (caller.kind = "script" /\ Armed(State)) =>
           pressed > 0 /\ keys[pressed] = KEquals
    /\ (caller.kind = "script" /\ caller.script = TestExample.disarm) =>
           /\ pressed = 4 => Armed(State) /\ display_text = <<"7">>
           /\ pressed = 5 => ~Armed(State) /\ last_rhs = None
           /\ pressed = 6 => display_text = <<"1">>

\* 5 + 2 = was typed: the display shows 7 and the equals key would add 2
C30_Witness ==
    /\ ScriptAt(4)
    /\ caller.script = TestExample.disarm
    /\ Armed(State)
    /\ reset_next_digit
    /\ display_text = <<"7">>

(***************************************************************************)
(* C31.  The repeat-equals memory never holds a division by zero.          *)
(***************************************************************************)
\* C31: in every reachable state, last_op = / implies that last_rhs is a
\* nonzero number; so in the repeat-equals case of press_equals the
\* operation never divides by zero, and the call ends in the error state
\* only with the text Overflow.
C31_NoDivisionByZeroInMemory ==
    LET Repeats(s) ==
            /\ ~s.error_state
            /\ ~(s.pending_op # NoOp /\ s.stored_value # None)
            /\ s.last_op # NoOp
            /\ s.last_rhs # None
    IN  /\ last_op = "/" => IsNumber(last_rhs) /\ ~IsZero(last_rhs)
        /\ Repeats(State) =>
               /\ _apply_op(_to_decimal(display_text), last_op, last_rhs)
                      # Raised("ZeroDivisionError")
               /\ press_equals(State).error_state =>
                      press_equals(State).display_text = OverflowText
        /\ (caller.kind = "script"
                /\ caller.script = EngineExample.repeat_division) =>
               /\ pressed = 4 => Repeats(State) /\ last_op = "/"
               /\ pressed = 5 => display_text = <<"2">> /\ last_op = "/"
        /\ (caller.kind = "script"
                /\ caller.script = EngineExample.repeat_overflow) =>
               /\ pressed = 12 => Repeats(State) /\ ~error_state
               /\ pressed = 13 => error_state /\ display_text = OverflowText

\* 8 / 2 = = was typed: the division by 2 was repeated and is remembered
C31_Witness ==
    /\ ScriptDone
    /\ caller.script = EngineExample.repeat_division
    /\ last_op = "/"
    /\ last_rhs = Dec(0, <<2>>, 0)
    /\ display_text = <<"2">>

(***************************************************************************)
(* C32.  A completed result is carried into a new operation.               *)
(***************************************************************************)
\* C32: an operator pressed right after a successful equals key stores the
\* displayed result and makes the new operator pending, with the display
\* and the repeat memory as they were; so a op1 b = op2 c = displays
\* (a op1 b) op2 c, and the memory (op1, b) of the first equals key is
\* replaced by (op2, c) without having been applied.
C32_CarriedResult ==
    LET script == caller.script
        n      == FirstEquals(script)
        IsCarry ==
            /\ caller.kind = "script"
            /\ StartsBinary(script)
            /\ Len(script) > n + 2
            /\ OperatorKeys(script) = {FirstOp(script), n + 1}
            /\ EqualsKeys(script) = {n, Len(script)}
            /\ IsOperand(SubSeq(script, n + 2, Len(script) - 1))
        a      == LeftOperand(script)
        op1    == Operator(script)
        b      == RightOperand(script)
        op2    == Normalize(Strip(script[n + 1].arg))
        c      == OperandValue(SubSeq(script, n + 2, Len(script) - 1))
        first  == _apply_op(a, op1, b)
        AfterEquals(s) ==
            /\ ~s.error_state
            /\ s.pending_op = NoOp
            /\ s.last_op # NoOp
            /\ s.reset_next_digit
    IN  /\ AfterEquals(State) =>
               \A t \in OperatorSpellings :
                   LET s == press_operator(State, t)
                   IN  /\ s.stored_value = _to_decimal(display_text)
                       /\ s.pending_op = Normalize(t)
                       /\ s.display_text = display_text
                       /\ s.last_op = last_op
                       /\ s.last_rhs = last_rhs
                       /\ s.reset_next_digit
                       /\ ~s.error_state
        /\ (IsCarry /\ ~DividesByZero(op1, b) /\ ~DividesByZero(op2, c)) =>
               /\ pressed = n => AfterEquals(State)
               /\ pressed = n + 1 =>
                      /\ stored_value = first
                      /\ pending_op = op2
                      /\ last_op = op1
                      /\ last_rhs = b
               /\ ScriptDone =>
                      /\ display_text
                             = _format_decimal(_apply_op(first, op2, c)).text
                      /\ last_op = op2
                      /\ last_rhs = c
                      /\ pending_op = NoOp
                      /\ ~error_state
        /\ (ScriptDone /\ script = EngineExample.carried_result) =>
               IsCarry /\ display_text = <<"7">>

\* 5 - 2 = * 5 = was typed: the display shows 15, not 5 - 2 - 2 or 5 * 5
C32_Witness ==
    /\ ScriptDone
    /\ caller.script = <<KDigit("5"), OpKey("-"), KDigit("2"), KEquals,
                         OpKey("*"), KDigit("5"), KEquals>>
    /\ display_text = <<"1", "5">>
    /\ last_op = "*"
    /\ last_rhs = Dec(0, <<5>>, 0)

====
